---- MODULE Spec2Model ----
(***************************************************************************)
(* A model of the NAPALM driver for Dell/Force10 FTOS                      *)
(* (napalm_ftos/ftos.py).                                                  *)
(*                                                                         *)
(* The driver keeps one field between calls, the netmiko connection        *)
(* `device`.  Every public operation is a call: it receives arguments,     *)
(* sends commands over the connection, transforms the response text and    *)
(* either returns a value or raises.  The state is therefore               *)
(*   device  the connection and what was sent over it,                     *)
(*   call    the operation under way and its arguments (for a parsing      *)
(*           step: the text or the extracted records it works on),         *)
(*   frame   the locals of the operation under way,                        *)
(*   ret     its outcome: pending, a returned value or a raised exception, *)
(*   intent  a history variable: the values a well-formed input text was   *)
(*           rendered from (NA for arbitrary text).                        *)
(*                                                                         *)
(* Text is a sequence of one-character strings, so that the regular        *)
(* expressions, split() and int() of the source are modelled by what they  *)
(* do to the characters.                                                   *)
(***************************************************************************)
EXTENDS Integers, Sequences, FiniteSets, TLC

VARIABLES device, call, frame, ret, intent

vars == <<device, call, frame, ret, intent>>

(***************************************************************************)
(* Outcomes of a call.                                                     *)
(***************************************************************************)
Pending == [exc |-> "Pending"]
Return(v) == [exc |-> "None", val |-> v]
Raise(e) == [exc |-> e]
NA == [known |-> FALSE]
Known(v) == [known |-> TRUE, val |-> v]
NoFrame == [pc |-> 0]
NoDevice == [conn |-> "None", sent |-> <<>>]

(***************************************************************************)
(* Characters and the str methods the source uses.                        *)
(***************************************************************************)
Digit == {"0", "1", "2", "3", "4", "5", "6", "7", "8", "9"}

DigitVal(c) ==
    CASE c = "0" -> 0 [] c = "1" -> 1 [] c = "2" -> 2 [] c = "3" -> 3
      [] c = "4" -> 4 [] c = "5" -> 5 [] c = "6" -> 6 [] c = "7" -> 7
      [] c = "8" -> 8 [] c = "9" -> 9

DigitChar(n) == <<"0", "1", "2", "3", "4", "5", "6", "7", "8", "9">>[n + 1]

\* str.isspace() of one character
IsSpace(c) == c \in {" ", "\t", "\n", "\r"}

\* the decimal value of a run of digits
RECURSIVE ToInt(_)
ToInt(d) ==
    IF d = <<>> THEN 0
    ELSE 10 * ToInt(SubSeq(d, 1, Len(d) - 1)) + DigitVal(d[Len(d)])

\* "%d" % n for n >= 0
RECURSIVE FromInt(_)
FromInt(n) ==
    IF n < 10 THEN <<DigitChar(n)>>
    ELSE FromInt(n \div 10) \o <<DigitChar(n % 10)>>

\* "%02d" % n
Pad2(n) == IF n < 10 THEN <<"0">> \o FromInt(n) ELSE FromInt(n)

RECURSIVE lstrip(_)
lstrip(s) == IF s # <<>> /\ IsSpace(Head(s)) THEN lstrip(Tail(s)) ELSE s

RECURSIVE rstrip(_)
rstrip(s) ==
    IF s # <<>> /\ IsSpace(s[Len(s)]) THEN rstrip(SubSeq(s, 1, Len(s) - 1))
    ELSE s

\* str.strip()
strip(s) == rstrip(lstrip(s))

\* the literal lit stands in s at position i
LitAt(s, i, lit) ==
    /\ i >= 1
    /\ i + Len(lit) - 1 <= Len(s)
    /\ \A k \in 1..Len(lit) : s[i + k - 1] = lit[k]

\* str.find(lit), 1-based; 0 when lit does not occur
Find(s, lit) ==
    IF \E i \in 1..(Len(s) + 1) : LitAt(s, i, lit)
    THEN CHOOSE i \in 1..(Len(s) + 1) :
            /\ LitAt(s, i, lit)
            /\ \A j \in 1..(i - 1) : ~LitAt(s, j, lit)
    ELSE 0

\* `lit in s`, and re.search of a literal pattern
Contains(s, lit) == Find(s, lit) # 0

\* str.startswith(lit)
startswith(s, lit) == LitAt(s, 1, lit)

\* str.endswith(lit)
endswith(s, lit) == Len(lit) <= Len(s) /\ LitAt(s, Len(s) - Len(lit) + 1, lit)

\* str.split(sep) for a non-empty separator
RECURSIVE SplitOn(_, _)
SplitOn(s, sep) ==
    LET k == Find(s, sep)
    IN  IF k = 0 THEN <<s>>
        ELSE <<SubSeq(s, 1, k - 1)>> \o SplitOn(SubSeq(s, k + Len(sep), Len(s)), sep)

\* the length of the run of non-blank characters of s from position i
RECURSIVE WordRun(_, _)
WordRun(s, i) ==
    IF i <= Len(s) /\ ~IsSpace(s[i]) THEN 1 + WordRun(s, i + 1) ELSE 0

\* str.split(): the blank-separated words of s
RECURSIVE SplitWs(_)
SplitWs(s) ==
    LET t == lstrip(s)
        n == WordRun(t, 1)
    IN  IF t = <<>> THEN <<>>
        ELSE <<SubSeq(t, 1, n)>> \o SplitWs(SubSeq(t, n + 1, Len(t)))

\* the length of the run of digits (\d+) of s from position i
RECURSIVE DigitRun(_, _)
DigitRun(s, i) ==
    IF i <= Len(s) /\ s[i] \in Digit THEN 1 + DigitRun(s, i + 1) ELSE 0

\* str.join(parts)
RECURSIVE Join(_, _)
Join(sep, parts) ==
    IF parts = <<>> THEN <<>>
    ELSE IF Len(parts) = 1 THEN parts[1]
    ELSE parts[1] \o sep \o Join(sep, Tail(parts))

\* the concatenation of a sequence of texts
Concat(parts) == Join(<<>>, parts)

\* the sequences over S of length at most n
SeqUpTo(S, n) == UNION {[1..k -> S] : k \in 0..n}

\* int(text): an optional sign and decimal digits, blanks around them
\* ignored; anything else is a ValueError
PyInt(text) ==
    LET t == strip(text)
        signed == t # <<>> /\ Head(t) \in {"+", "-"}
        d == IF signed THEN Tail(t) ELSE t
    IN  IF d # <<>> /\ DigitRun(d, 1) = Len(d)
        THEN Return(IF signed /\ Head(t) = "-" THEN 0 - ToInt(d) ELSE ToInt(d))
        ELSE Raise("ValueError")

\* the least element of a non-empty set of integers
Min(S) == CHOOSE x \in S : \A y \in S : x <= y

\* the greatest element of a non-empty set of integers
Max(S) == CHOOSE x \in S : \A y \in S : y <= x

\* str.replace(old, new) for a non-empty old
RECURSIVE Replace(_, _, _)
Replace(s, old, new) ==
    LET k == Find(s, old)
    IN  IF k = 0 THEN s
        ELSE SubSeq(s, 1, k - 1) \o new
             \o Replace(SubSeq(s, k + Len(old), Len(s)), old, new)

\* the length of the run of blanks (\s+) of s from position i
RECURSIVE SpaceRun(_, _)
SpaceRun(s, i) ==
    IF i <= Len(s) /\ IsSpace(s[i]) THEN 1 + SpaceRun(s, i + 1) ELSE 0

\* re.sub(r'\s+', ' ', s)
RECURSIVE SubSpaces(_)
SubSpaces(s) ==
    IF s = <<>> THEN <<>>
    ELSE IF IsSpace(Head(s))
         THEN <<" ">> \o SubSpaces(SubSeq(s, SpaceRun(s, 1) + 1, Len(s)))
         ELSE <<Head(s)>> \o SubSpaces(Tail(s))

\* the length of the run of `.` (any character but a line break) from i
RECURSIVE DotRun(_, _)
DotRun(s, i) ==
    IF i <= Len(s) /\ s[i] # "\n" THEN 1 + DotRun(s, i + 1) ELSE 0

\* a float, kept exactly: num / 10^scale, with no trailing zero in the fraction
RECURSIVE Float(_, _)
Float(num, scale) ==
    IF scale > 0 /\ num % 10 = 0 THEN Float(num \div 10, scale - 1)
    ELSE [num |-> num, scale |-> scale]

\* float(text) for decimal text: an optional sign, digits, an optional point
\* and digits, at least one digit in all; anything else is a ValueError
PyFloat(text) ==
    LET t == strip(text)
        signed == t # <<>> /\ Head(t) \in {"+", "-"}
        d == IF signed THEN Tail(t) ELSE t
        n1 == DigitRun(d, 1)
        point == n1 < Len(d) /\ d[n1 + 1] = "."
        n2 == IF point THEN DigitRun(d, n1 + 2) ELSE 0
        all == SubSeq(d, 1, n1) \o SubSeq(d, n1 + 2, n1 + 1 + n2)
        whole == n1 + (IF point THEN 1 ELSE 0) + n2 = Len(d)
    IN  IF whole /\ n1 + n2 > 0
        THEN Return(Float(IF signed /\ Head(t) = "-" THEN 0 - ToInt(all) ELSE ToInt(all), n2))
        ELSE Raise("ValueError")

(***************************************************************************)
(* _parse_uptime (ftos.py 78-139)                                          *)
(***************************************************************************)
MINUTE_SECONDS == 60
HOUR_SECONDS == 60 * MINUTE_SECONDS
DAY_SECONDS == 24 * HOUR_SECONDS
\* a week of five working days
WEEK_SECONDS_WorkingDays == 5 * DAY_SECONDS
WEEK_SECONDS == 7 * DAY_SECONDS
YEAR_SECONDS == 365 * DAY_SECONDS

\* the six counters, initialised to zero (line 89)
ZeroTime ==
    [years |-> 0, weeks |-> 0, days |-> 0, hours |-> 0, minutes |-> 0, seconds |-> 0]

\* r'^(\d+):(\d+):(\d+)$' on the stripped text: the three groups, or <<>>
MatchHMS(s) ==
    LET n1 == DigitRun(s, 1)
        c1 == 1 + n1
        n2 == DigitRun(s, c1 + 1)
        c2 == c1 + 1 + n2
        n3 == DigitRun(s, c2 + 1)
    IN  IF /\ n1 > 0 /\ c1 <= Len(s) /\ s[c1] = ":"
           /\ n2 > 0 /\ c2 <= Len(s) /\ s[c2] = ":"
           /\ n3 > 0 /\ c2 + n3 = Len(s)
        THEN <<SubSeq(s, 1, n1), SubSeq(s, c1 + 1, c1 + n2), SubSeq(s, c2 + 1, c2 + n3)>>
        ELSE <<>>

\* one optional group (\d+<suffix>)? tried at position i: its text, <<>> for None
OptGroup(s, i, suffix) ==
    LET n == DigitRun(s, i)
    IN  IF n > 0 /\ i + n <= Len(s) /\ s[i + n] = suffix
        THEN SubSeq(s, i, i + n)
        ELSE <<>>

\* r'(\d+w)?(\d+d)?(\d+h)?(\d+m)?' searched in s: every group is optional, so
\* the search succeeds at the first position; match.groups()
CompactGroups(s) ==
    LET gw == OptGroup(s, 1, "w")
        gd == OptGroup(s, 1 + Len(gw), "d")
        gh == OptGroup(s, 1 + Len(gw) + Len(gd), "h")
        gm == OptGroup(s, 1 + Len(gw) + Len(gd) + Len(gh), "m")
    IN  <<gw, gd, gh, gm>>

\* the loop over match.groups() (lines 103-120)
RECURSIVE ShortLoop(_, _)
ShortLoop(groups, t) ==
    IF groups = <<>> THEN t
    ELSE LET m == Head(groups)
             n == ToInt(SubSeq(m, 1, Len(m) - 1))
         IN  ShortLoop(Tail(groups),
                 IF m = <<>> THEN t
                 ELSE IF endswith(m, <<"y">>) THEN [t EXCEPT !.years = n]
                 ELSE IF endswith(m, <<"w">>) THEN [t EXCEPT !.weeks = n]
                 ELSE IF endswith(m, <<"d">>) THEN [t EXCEPT !.days = n]
                 ELSE IF endswith(m, <<"h">>) THEN [t EXCEPT !.hours = n]
                 ELSE IF endswith(m, <<"m">>) THEN [t EXCEPT !.minutes = n]
                 ELSE t)

\* the branch `if short:` (lines 92-120)
ShortTime(s) ==
    LET hms == MatchHMS(s)
    IN  IF hms # <<>>
        THEN [ZeroTime EXCEPT !.hours = ToInt(hms[1]), !.minutes = ToInt(hms[2]),
                              !.seconds = ToInt(hms[3])]
        ELSE ShortLoop(CompactGroups(s), ZeroTime)

\* which counter an element of the long form sets (lines 126-134): the first
\* of the unit patterns found in it, "" when none is
LongUnit(element) ==
    IF Contains(element, <<"y", "e", "a", "r">>) THEN "years"
    ELSE IF Contains(element, <<"w", "k">>) \/ Contains(element, <<"w", "e", "e", "k">>)
         THEN "weeks"
    ELSE IF Contains(element, <<"d", "a", "y">>) THEN "days"
    ELSE IF Contains(element, <<"h", "r">>) \/ Contains(element, <<"h", "o", "u", "r">>)
         THEN "hours"
    ELSE IF Contains(element, <<"m", "i", "n">>) THEN "minutes"
    ELSE ""

\* the loop over uptime_str.split(', ') (lines 124-135): the counters, or the
\* ValueError of int(element.split()[0])
RECURSIVE LongLoop(_, _)
LongLoop(time_list, t) ==
    IF time_list = <<>> THEN Return(t)
    ELSE LET element == Head(time_list)
             unit == LongUnit(element)
             n == PyInt(SplitWs(element)[1])
         IN  IF unit = "" THEN LongLoop(Tail(time_list), t)
             ELSE IF n.exc # "None" THEN n
             ELSE LongLoop(Tail(time_list), [t EXCEPT ![unit] = n.val])

\* the return expression (lines 137-139)
TotalSeconds(t) ==
    (t.years * YEAR_SECONDS) + (t.weeks * WEEK_SECONDS) +
    (t.days * DAY_SECONDS) + (t.hours * HOUR_SECONDS) +
    (t.minutes * MINUTE_SECONDS) + t.seconds

_parse_uptime(uptime_str, short) ==
    LET s == strip(uptime_str)
        long == LongLoop(SplitOn(s, <<",", " ">>), ZeroTime)
    IN  IF short THEN Return(TotalSeconds(ShortTime(s)))
        ELSE IF long.exc # "None" THEN long
        ELSE Return(TotalSeconds(long.val))

(***************************************************************************)
(* The calls of _parse_uptime.  A well-formed text is rendered from the    *)
(* numbers it stands for, which `intent` keeps; arbitrary text is put      *)
(* together from fragments of device output.                               *)
(***************************************************************************)
MaxFrags == 3

Absent == 0 - 1

Units == <<"years", "weeks", "days", "hours", "minutes">>

\* the unit words of the long form, as FTOS prints them ("32 week(s)")
UnitWord ==
    [years |-> <<"y", "e", "a", "r", "(", "s", ")">>,
     weeks |-> <<"w", "e", "e", "k", "(", "s", ")">>,
     days |-> <<"d", "a", "y", "(", "s", ")">>,
     hours |-> <<"h", "o", "u", "r", "(", "s", ")">>,
     minutes |-> <<"m", "i", "n", "u", "t", "e", "(", "s", ")">>]

\* the unit letters of the compact short form ("20w4d21h")
UnitLetter == [weeks |-> "w", days |-> "d", hours |-> "h", minutes |-> "m"]

LongChoices ==
    [years : {Absent, 1, 2}, weeks : {Absent, 0, 32}, days : {Absent, 6, 13},
     hours : {Absent, 10}, minutes : {Absent, 5, 39}, seconds : {0}]

CompactChoices ==
    [years : {0}, weeks : {Absent, 1, 20}, days : {Absent, 4}, hours : {Absent, 21, 22},
     minutes : {Absent, 23}, seconds : {0}]

HMSChoices ==
    [years : {0}, weeks : {0}, days : {0}, hours : {0, 1, 12}, minutes : {2, 59},
     seconds : {0, 3}]

\* the segments "<n> <unit>(s)" of the units present, in order
RECURSIVE LongSegments(_, _)
LongSegments(pick, us) ==
    IF us = <<>> THEN <<>>
    ELSE (IF pick[Head(us)] = Absent THEN <<>>
          ELSE <<FromInt(pick[Head(us)]) \o <<" ">> \o UnitWord[Head(us)]>>)
         \o LongSegments(pick, Tail(us))

RenderLong(pick) == Join(<<",", " ">>, LongSegments(pick, Units))

RECURSIVE CompactSegments(_, _)
CompactSegments(pick, us) ==
    IF us = <<>> THEN <<>>
    ELSE (IF pick[Head(us)] = Absent THEN <<>>
          ELSE <<FromInt(pick[Head(us)]) \o <<UnitLetter[Head(us)]>>>>)
         \o CompactSegments(pick, Tail(us))

RenderCompact(pick) == Concat(CompactSegments(pick, Tail(Units)))

RenderHMS(pick) ==
    Pad2(pick.hours) \o <<":">> \o Pad2(pick.minutes) \o <<":">> \o Pad2(pick.seconds)

\* an absent unit counts zero
Present(pick) == [u \in DOMAIN pick |-> IF pick[u] = Absent THEN 0 ELSE pick[u]]

UptimeFragments ==
    {<<"3">>, <<" ">>, <<",", " ">>, <<"d", "a", "y">>, <<"u", "p">>, <<"2", "w">>,
     <<":">>, <<"h", "r">>}

UptimeCall(text, short) == [op |-> "_parse_uptime", uptime_str |-> text, short |-> short]

InitUptime ==
    /\ device = NoDevice
    /\ frame = NoFrame
    /\ ret = Pending
    /\ \/ \E pick \in LongChoices :
            /\ call = UptimeCall(RenderLong(pick), FALSE)
            /\ intent = Known([form |-> "long", time |-> Present(pick)])
       \/ \E pick \in CompactChoices :
            /\ call = UptimeCall(RenderCompact(pick), TRUE)
            /\ intent = Known([form |-> "compact", time |-> Present(pick)])
       \/ \E pick \in HMSChoices :
            /\ call = UptimeCall(RenderHMS(pick), TRUE)
            /\ intent = Known([form |-> "hms", time |-> Present(pick)])
       \/ \E parts \in SeqUpTo(UptimeFragments, MaxFrags), short \in BOOLEAN :
            /\ call = UptimeCall(Concat(parts), short)
            /\ intent = NA

ParseUptime ==
    /\ call.op = "_parse_uptime"
    /\ ret = Pending
    /\ ret' = _parse_uptime(call.uptime_str, call.short)
    /\ UNCHANGED <<device, call, frame, intent>>

NextUptime == ParseUptime

SpecUptime == InitUptime /\ [][NextUptime]_vars

\* C4: the duration parser never fails: every call of it returns.
C4_NeverFails ==
    (call.op = "_parse_uptime" /\ ret # Pending) => ret.exc = "None"

\* C5: for well-formed input the duration parser returns
\* years*31536000 + weeks*604800 + days*86400 + hours*3600 + minutes*60 + seconds
\* of the numbers the text was rendered from, in the long form, in HH:MM:SS
\* and in the compact short form; the empty short-form text yields 0.
C5_WellFormedTotal ==
    (call.op = "_parse_uptime" /\ ret # Pending /\ intent.known) =>
        /\ ret.exc = "None"
        /\ ret.val = intent.val.time.years * 31536000 + intent.val.time.weeks * 604800
                     + intent.val.time.days * 86400 + intent.val.time.hours * 3600
                     + intent.val.time.minutes * 60 + intent.val.time.seconds

\* the text "20w4d21h" of the specification was parsed, to 12517200 seconds
C5_Witness ==
    /\ call.op = "_parse_uptime"
    /\ call.short
    /\ call.uptime_str = <<"2", "0", "w", "4", "d", "2", "1", "h">>
    /\ intent.known
    /\ ret = Return(12517200)

(***************************************************************************)
(* The calls of _parse_uptime on compact short-form texts that open with a *)
(* year segment ("1y2w3d").                                                *)
(***************************************************************************)
YearCompactChoices ==
    [years : {1, 2}, weeks : {Absent, 2, 20}, days : {Absent, 3, 4},
     hours : {Absent, 21, 22}, minutes : {Absent, 23}, seconds : {0}]

RenderYearCompact(pick) == FromInt(pick.years) \o <<"y">> \o RenderCompact(pick)

InitYearUptime ==
    /\ device = NoDevice
    /\ frame = NoFrame
    /\ ret = Pending
    /\ \E pick \in YearCompactChoices :
          /\ call = UptimeCall(RenderYearCompact(pick), TRUE)
          /\ intent = Known([form |-> "compact", time |-> Present(pick)])

NextYearUptime == ParseUptime

SpecYearUptime == InitYearUptime /\ [][NextYearUptime]_vars

\* C14: a compact short-form text that opens with '<n>y' yields
\* n*31536000 seconds on top of what its w/d/h/m segments yield.
C14_YearSegment ==
    (call.op = "_parse_uptime" /\ call.short /\ ret # Pending) =>
        /\ ret.exc = "None"
        /\ ret.val = intent.val.time.years * 31536000 + intent.val.time.weeks * 604800
                     + intent.val.time.days * 86400 + intent.val.time.hours * 3600
                     + intent.val.time.minutes * 60

(***************************************************************************)
(* _canonical_interface_name (ftos.py 37-46).  It first calls napalm's     *)
(* canonical_interface_name, which is not part of this repository: that    *)
(* helper is modelled as the specification describes it (an expansion of   *)
(* the type part of the name through an abbreviation table), on an excerpt *)
(* of the table.                                                           *)
(***************************************************************************)
TenGigabitEthernet == <<"T", "e", "n", "G", "i", "g", "a", "b", "i", "t", "E", "t", "h", "e", "r", "n", "e", "t">>
GigabitEthernet == <<"G", "i", "g", "a", "b", "i", "t", "E", "t", "h", "e", "r", "n", "e", "t">>
Vlan == <<"V", "l", "a", "n">>

\* an excerpt of the abbreviation table: type part -> full type name
NameMapKeys == {<<"T", "e">>, TenGigabitEthernet, <<"G", "i">>, GigabitEthernet, <<"V", "l">>, Vlan}

NameMap(head) ==
    IF head \in {<<"T", "e">>, TenGigabitEthernet} THEN TenGigabitEthernet
    ELSE IF head \in {<<"G", "i">>, GigabitEthernet} THEN GigabitEthernet
    ELSE Vlan

\* the characters that make up the number part of an interface name
NumberChar(c) == c \in Digit \cup {"/", "\\", ".", " "}

\* the type part: the name without its trailing number part
RECURSIVE TypePart(_)
TypePart(name) ==
    IF name # <<>> /\ NumberChar(name[Len(name)])
    THEN TypePart(SubSeq(name, 1, Len(name) - 1))
    ELSE name

\* napalm's canonical_interface_name: a known type part is replaced by its
\* full name and joined to the number part, blanks between them dropped;
\* any other name is returned as it is
canonical_interface_name(interface) ==
    LET head == TypePart(interface)
        tail == lstrip(SubSeq(interface, Len(head) + 1, Len(interface)))
    IN  IF head \in NameMapKeys THEN NameMap(head) \o tail ELSE interface

\* `$`: the end of the text, or just before a line break that ends it
AtEnd(s, i) == i = Len(s) + 1 \/ (i = Len(s) /\ s[i] = "\n")

\* r'^(TenGigabitEthernet)(\d+\/\d+)$' (line 42): the two groups, or <<>>
MatchTenGig(iface) ==
    LET p == Len(TenGigabitEthernet) + 1
        n1 == DigitRun(iface, p)
        n2 == DigitRun(iface, p + n1 + 1)
    IN  IF /\ startswith(iface, TenGigabitEthernet)
           /\ n1 > 0
           /\ p + n1 <= Len(iface)
           /\ iface[p + n1] = "/"
           /\ n2 > 0
           /\ AtEnd(iface, p + n1 + 1 + n2)
        THEN <<TenGigabitEthernet, SubSeq(iface, p, p + n1 + n2)>>
        ELSE <<>>

\* the post-fix left out
_canonical_interface_name_NoPostFix(iface) == canonical_interface_name(iface)

_canonical_interface_name(iface) ==
    LET expanded == canonical_interface_name(iface)
        m == MatchTenGig(expanded)
    IN  IF m # <<>> THEN Join(<<" ">>, m) ELSE expanded

(***************************************************************************)
(* The calls of _canonical_interface_name: a name is a type part, blanks   *)
(* or none, and a number part, as the extractor cuts it out of one line of *)
(* device output (so it holds no line break).  A second call is made on    *)
(* the result of the first.                                                *)
(***************************************************************************)
MaxSlot == 1

TypeParts ==
    {<<"T", "e">>, TenGigabitEthernet, <<"G", "i">>, GigabitEthernet, <<"V", "l">>, Vlan,
     <<"M", "a", "n", "a", "g", "e", "m", "e", "n", "t", "E", "t", "h", "e", "r", "n", "e", "t">>, <<>>}

\* the number parts <slot>/<port>, rendered from the two numbers
SlotPorts == {[slot |-> a, port |-> b] : a \in 0..MaxSlot, b \in {1, 12}}

RenderSlotPort(sp) == FromInt(sp.slot) \o <<"/">> \o FromInt(sp.port)

\* number parts of another form
OtherNumbers == {<<>>, <<"1", "0", "0">>, <<"1", "/">>, <<"/", "1">>, <<"0", "/", "1", "/", "2">>, <<"1", "/", "1", ".", "5">>, <<"1", " ", "/", "1">>}

Blanks == {<<>>, <<" ">>, <<" ", " ">>}

CanonCall(name) == [op |-> "_canonical_interface_name", iface |-> name]

InitCanon ==
    /\ device = NoDevice
    /\ frame = NoFrame
    /\ ret = Pending
    /\ \E t \in TypeParts, b \in Blanks :
          \/ \E sp \in SlotPorts :
                /\ call = CanonCall(t \o b \o RenderSlotPort(sp))
                /\ intent = Known([type |-> t, blanks |-> b, slotport |-> RenderSlotPort(sp)])
          \/ \E n \in OtherNumbers :
                /\ call = CanonCall(t \o b \o n)
                /\ intent = NA

\* the first call
Canonicalize ==
    /\ call.op = "_canonical_interface_name"
    /\ ret = Pending
    /\ ret' = Return(_canonical_interface_name(call.iface))
    /\ UNCHANGED <<device, call, frame, intent>>

\* a second call, on the result of the first
ReCanonicalize ==
    /\ call.op = "_canonical_interface_name"
    /\ ret # Pending
    /\ frame = NoFrame
    /\ frame' = [pc |-> 1, first |-> ret.val]
    /\ ret' = Return(_canonical_interface_name(ret.val))
    /\ UNCHANGED <<device, call, intent>>

NextCanon == Canonicalize \/ ReCanonicalize

SpecCanon == InitCanon /\ [][NextCanon]_vars

\* the name was rendered as a TenGigabitEthernet type (in full or as "Te"),
\* blanks or none, and <slot>/<port>
TenGigIntent ==
    /\ intent.known
    /\ intent.val.type \in {<<"T", "e">>, TenGigabitEthernet}

\* C6: canonicalization is idempotent, canonicalize(canonicalize(x)) =
\* canonicalize(x); and where the expanded name is TenGigabitEthernet<slot>/<port>
\* with no space, the result is the type name, exactly one space and
\* <slot>/<port>, while every other expanded name is returned unchanged.
C6_Idempotent ==
    /\ (call.op = "_canonical_interface_name" /\ frame.pc = 1) => ret.val = frame.first
    /\ (call.op = "_canonical_interface_name" /\ ret # Pending /\ frame.pc = 0) =>
          /\ TenGigIntent =>
                ret.val = TenGigabitEthernet \o <<" ">> \o intent.val.slotport
          /\ (intent.known /\ ~TenGigIntent) =>
                ret.val = canonical_interface_name(call.iface)
          /\ ~intent.known => ret.val = canonical_interface_name(call.iface)

\* "Te0/12" was canonicalized to "TenGigabitEthernet 0/12", and a second
\* call on that result has been made
C6_Witness ==
    /\ call.op = "_canonical_interface_name"
    /\ call.iface = <<"T", "e", "0", "/", "1", "2">>
    /\ frame.pc = 1
    /\ frame.first = <<"T", "e", "n", "G", "i", "g", "a", "b", "i", "t", "E", "t", "h", "e", "r", "n", "e", "t", " ", "0", "/", "1", "2">>
    /\ ret # Pending

(***************************************************************************)
(* ping (ftos.py 698-744)                                                  *)
(***************************************************************************)
ErrorMarker == <<"%", " ", "E", "r", "r", "o", "r", ":", " ">>

\* r'% Error: (.+)' searched in result (lines 715, 758): group(1), which is
\* never empty, or <<>> when the pattern is not found
SearchError(result) ==
    LET hits == {i \in 1..Len(result) :
                    /\ LitAt(result, i, ErrorMarker)
                    /\ DotRun(result, i + Len(ErrorMarker)) > 0}
        i == Min(hits) + Len(ErrorMarker)
    IN  IF hits = {} THEN <<>>
        ELSE SubSeq(result, i, i + DotRun(result, i) - 1)

\* the length of the run of [\d\.]+ of s from position i
RECURSIVE RateRun(_, _)
RateRun(s, i) ==
    IF i <= Len(s) /\ s[i] \in Digit \cup {"."} THEN 1 + RateRun(s, i + 1) ELSE 0

\* r' = (\d+)\/(\d+)\/(\d+)' at position j of s: the three groups, or <<>>
MatchRtt(s, j) ==
    LET a == j + 3
        na == DigitRun(s, a)
        b == a + na + 1
        nb == DigitRun(s, b)
        c == b + nb + 1
        nc == DigitRun(s, c)
    IN  IF /\ LitAt(s, j, <<" ", "=", " ">>)
           /\ na > 0 /\ LitAt(s, a + na, <<"/">>)
           /\ nb > 0 /\ LitAt(s, b + nb, <<"/">>)
           /\ nc > 0
        THEN <<SubSeq(s, a, a + na - 1), SubSeq(s, b, b + nb - 1), SubSeq(s, c, c + nc - 1)>>
        ELSE <<>>

\* r'Success rate is [\d\.]+ percent \((\d+)\/(\d+)\).+ = (\d+)\/(\d+)\/(\d+)'
\* at position i of s: the five groups, or <<>>.  The greedy `.+` ends at the
\* last place in the line from which the rest matches.
MatchSummary(s, i) ==
    LET r == i + Len(<<"S", "u", "c", "c", "e", "s", "s", " ", "r", "a", "t", "e", " ", "i", "s", " ">>)
        nr == RateRun(s, r)
        a == r + nr + Len(<<" ", "p", "e", "r", "c", "e", "n", "t", " ", "(">>)
        na == DigitRun(s, a)
        b == a + na + 1
        nb == DigitRun(s, b)
        dot == b + nb + 1
        ends == {j \in (dot + 1)..(dot + DotRun(s, dot)) : MatchRtt(s, j) # <<>>}
    IN  IF /\ LitAt(s, i, <<"S", "u", "c", "c", "e", "s", "s", " ", "r", "a", "t", "e", " ", "i", "s", " ">>)
           /\ nr > 0 /\ LitAt(s, r + nr, <<" ", "p", "e", "r", "c", "e", "n", "t", " ", "(">>)
           /\ na > 0 /\ LitAt(s, a + na, <<"/">>)
           /\ nb > 0 /\ LitAt(s, b + nb, <<")">>)
           /\ ends # {}
        THEN <<SubSeq(s, a, a + na - 1), SubSeq(s, b, b + nb - 1)>> \o MatchRtt(s, Max(ends))
        ELSE <<>>

\* the pattern searched in result (line 722): m.groups(), or <<>>
SearchSummary(result) ==
    LET hits == {i \in 1..Len(result) : MatchSummary(result, i) # <<>>}
    IN  IF hits = {} THEN <<>> ELSE MatchSummary(result, Min(hits))

\* the summary parsed before the error check
ping_SummaryFirst(destination, result) ==
    LET err == SearchError(result)
        g == SearchSummary(result)
    IN  IF g # <<>> THEN [success |-> [probes_sent |-> ToInt(g[2])]]
        ELSE IF err # <<>> THEN [error |-> err]
        ELSE [error |-> <<"c", "o", "u", "l", "d", " ", "n", "o", "t", " ", "p", "a", "r", "s", "e", " ", "o", "u", "t", "p", "u", "t">>]

\* lines 714-744; ip() is napalm's address validation, taken to accept the
\* destination
ping(destination, result) ==
    LET err == SearchError(result)
        g == SearchSummary(result)
    IN  IF err # <<>> THEN [error |-> err]
        ELSE IF g = <<>> THEN [error |-> <<"c", "o", "u", "l", "d", " ", "n", "o", "t", " ", "p", "a", "r", "s", "e", " ", "o", "u", "t", "p", "u", "t">>]
        ELSE [success |->
                [probes_sent |-> ToInt(g[2]),
                 packet_loss |-> ToInt(g[2]) - ToInt(g[1]),
                 rtt_min |-> PyFloat(g[3]).val,
                 rtt_avg |-> PyFloat(g[4]).val,
                 rtt_max |-> PyFloat(g[5]).val,
                 rtt_stddev |-> Float(0, 0),
                 results |-> <<[ip_address |-> destination, rtt |-> PyFloat(g[4]).val]>>]]

\* the command of ping (lines 701-711), word by word, with the default
\* timeout, size and count
PingCommand(destination, source, vrf) ==
    <<"ping">>
    \o (IF vrf # "" THEN <<"vrf", vrf>> ELSE <<>>)
    \o <<destination, "timeout", "2", "datagram-size", "100">>
    \o (IF source # "" THEN <<"source", "ip", source>> ELSE <<>>)
    \o <<"count", "5">>

(***************************************************************************)
(* traceroute (ftos.py 746-791).  The records come from the TextFSM        *)
(* extractor, an outside capability: what it extracts from the response is *)
(* an input of the call (`extracted`).                                     *)
(***************************************************************************)
TracerouteCommand(destination, vrf) ==
    <<"traceroute">> \o (IF vrf # "" THEN <<"vrf", vrf>> ELSE <<>>) \o <<destination>>

\* lines 775-779: the probe times of a record, unit suffixes removed
ProbeTokens(probes) ==
    LET p == SubSpaces(strip(Replace(probes, <<"m", "s">>, <<>>)))
    IN  IF Len(p) = 0 THEN <<>> ELSE SplitOn(p, <<" ">>)

\* a dict with one more key, or with the key's value replaced
Put(dict, key, value) ==
    [k \in DOMAIN dict \cup {key} |-> IF k = key THEN value ELSE dict[k]]

\* the locals of the loop before its first pass (lines 766-767): ttl is
\* None, written <<>>, and ctr is not bound yet
TraceStart == [exc |-> "None", trace |-> <<>>, ttl |-> <<>>, ctr |-> 0]

\* lines 781-787, for the probes of one record: the value of the entry is
\* evaluated first (float may raise), then trace[ttl] is looked up
RECURSIVE ProbeLoop(_, _, _)
ProbeLoop(st, hop, probes) ==
    IF probes = <<>> \/ st.exc # "None" THEN st
    ELSE LET rtt == PyFloat(Head(probes))
             t == st.ttl[1]
             probe == [rtt |-> rtt.val, ip_address |-> hop, host_name |-> hop]
             group == [probes |-> Put(st.trace[t].probes, st.ctr, probe)]
         IN  IF rtt.exc # "None" THEN [st EXCEPT !.exc = rtt.exc]
             ELSE IF st.ttl = <<>> THEN [st EXCEPT !.exc = "KeyError"]
             ELSE ProbeLoop([st EXCEPT !.trace = Put(st.trace, t, group),
                                       !.ctr = st.ctr + 1],
                            hop, Tail(probes))

\* a group that exists is kept and continued instead of replaced
OpenGroup_Merges(st, entry) ==
    LET blank == Len(strip(entry.ttl)) = 0
        ttl == PyInt(entry.ttl)
        kept == ttl.val \in DOMAIN st.trace
    IN  IF blank THEN st
        ELSE IF ttl.exc # "None" THEN [st EXCEPT !.exc = ttl.exc]
        ELSE IF st.ttl # <<ttl.val>>
             THEN [st EXCEPT !.ttl = <<ttl.val>>,
                             !.trace = IF kept THEN st.trace
                                       ELSE Put(st.trace, ttl.val, [probes |-> <<>>]),
                             !.ctr = IF kept
                                     THEN Cardinality(DOMAIN st.trace[ttl.val].probes) + 1
                                     ELSE 1]
             ELSE st

\* lines 769-772: a record with a TTL other than the current one opens a
\* group under it
OpenGroup(st, entry) ==
    LET blank == Len(strip(entry.ttl)) = 0
        ttl == PyInt(entry.ttl)
    IN  IF blank THEN st
        ELSE IF ttl.exc # "None" THEN [st EXCEPT !.exc = ttl.exc]
        ELSE IF st.ttl # <<ttl.val>>
             THEN [st EXCEPT !.ttl = <<ttl.val>>,
                             !.trace = Put(st.trace, ttl.val, [probes |-> <<>>]),
                             !.ctr = 1]
             ELSE st

\* the loop over the records (lines 768-787)
RECURSIVE TraceLoop(_, _)
TraceLoop(st, entries) ==
    IF entries = <<>> \/ st.exc # "None" THEN st
    ELSE TraceLoop(ProbeLoop(OpenGroup(st, Head(entries)), Head(entries).hop,
                             ProbeTokens(Head(entries).probes)),
                   Tail(entries))

\* lines 757-791
traceroute(result, extracted) ==
    LET err == SearchError(result)
        st == TraceLoop(TraceStart, extracted)
    IN  IF err # <<>> THEN Return([error |-> err])
        ELSE IF st.exc # "None" THEN Raise(st.exc)
        ELSE Return([success |-> st.trace])

(***************************************************************************)
(* The calls of ping and traceroute.  A response that reports an error is  *)
(* rendered as: text without a complete marker, the marker '% Error: ',    *)
(* the message, and the rest of the response; `intent` keeps the message.  *)
(***************************************************************************)
SummaryLine ==
    <<"S", "u", "c", "c", "e", "s", "s", " ", "r", "a", "t", "e", " ", "i", "s", " ",
      "1", "0", "0", ".", "0", " ", "p", "e", "r", "c", "e", "n", "t", " ", "(", "5",
      "/", "5", ")", ",", " ", "r", "o", "u", "n", "d", "-", "t", "r", "i", "p", " ",
      "m", "i", "n", "/", "a", "v", "g", "/", "m", "a", "x", " ", "=", " ", "0", "/",
      "1", "/", "2", " ", "(", "m", "s", ")">>

LossySummaryLine ==
    <<"S", "u", "c", "c", "e", "s", "s", " ", "r", "a", "t", "e", " ", "i", "s", " ",
      "8", "0", " ", "p", "e", "r", "c", "e", "n", "t", " ", "(", "4", "/", "5", ")",
      ",", " ", "r", "o", "u", "n", "d", "-", "t", "r", "i", "p", " ", "m", "i", "n",
      "/", "a", "v", "g", "/", "m", "a", "x", " ", "=", " ", "1", "/", "2", "2", "/",
      "3", "3", "3", " ", "(", "m", "s", ")">>

NewLine == <<"\n">>

\* what may stand before the marker: nothing, progress marks, a summary that
\* parses, a marker with no message
BeforeError ==
    {<<>>, <<"!", "!", "!", "!", "!">> \o NewLine, SummaryLine \o NewLine, ErrorMarker \o NewLine}

ErrorMessages == {<<"H", "o", "s", "t", " ", "u", "n", "r", "e", "a", "c", "h", "a", "b", "l", "e", ".">>, <<"x">>, <<"n", "o", " ", "r", "o", "u", "t", "e", " ", "%", " ", "E", "r", "r", "o", "r", ":", " ", "y">>}

\* what may stand after the message
AfterError ==
    {<<>>, NewLine, NewLine \o SummaryLine, NewLine \o ErrorMarker \o <<"o", "t", "h", "e", "r">>}

\* responses that report no error
PlainResponses ==
    {<<>>, SummaryLine, <<"!", "!", "!", "!", "!">> \o NewLine \o LossySummaryLine \o NewLine,
     <<"T", "y", "p", "e", " ", "C", "t", "r", "l", "-", "C", " ", "t", "o", " ", "a", "b", "o", "r", "t", ".">>, <<"%", " ", "E", "r", "r", "o", "r", ":">>, ErrorMarker \o NewLine \o SummaryLine}

Destinations == {"10.0.0.1"}

Vrfs == {"", "mgmt"}

Hops == {"10.0.0.1", "10.0.0.2"}

\* extracted traceroute records: the TTL, the hop and the probe times as text
TraceRecord(ttl, hop, probes) == [ttl |-> ttl, hop |-> hop, probes |-> probes]

SomeExtracts ==
    {<<>>,
     <<TraceRecord(<<"1">>, "10.0.0.1", <<"1", ".", "5", " ", "m", "s">>)>>,
     <<TraceRecord(<<>>, "10.0.0.1", <<"1", ".", "5", " ", "m", "s">>)>>}

OpenDevice == [conn |-> "open", sent |-> <<>>]

PingCall(d, v, text) ==
    [op |-> "ping", destination |-> d, source |-> "", vrf |-> v, result |-> text]

TracerouteCall(d, v, text, records) ==
    [op |-> "traceroute", destination |-> d, vrf |-> v, result |-> text,
     extracted |-> records]

InitPing ==
    /\ device = OpenDevice
    /\ frame = NoFrame
    /\ ret = Pending
    /\ \E d \in Destinations, v \in Vrfs :
          \E c \in {PingCall(d, v, <<>>)}
                   \cup {TracerouteCall(d, v, <<>>, x) : x \in SomeExtracts} :
             \/ \E b \in BeforeError, m \in ErrorMessages, a \in AfterError :
                   /\ call = [c EXCEPT !.result = b \o ErrorMarker \o m \o a]
                   /\ intent = Known([msg |-> m])
             \/ \E text \in PlainResponses :
                   /\ call = [c EXCEPT !.result = text]
                   /\ intent = NA

\* ping: the command is sent, the device answers call.result, and the
\* answer is parsed
Ping ==
    /\ call.op = "ping"
    /\ ret = Pending
    /\ device.conn = "open"
    /\ device' = [device EXCEPT
                    !.sent = Append(@, PingCommand(call.destination, call.source, call.vrf))]
    /\ ret' = Return(ping(call.destination, call.result))
    /\ UNCHANGED <<call, frame, intent>>

\* traceroute: the command is sent, the device answers call.result, from
\* which the extractor yields call.extracted
Traceroute ==
    /\ call.op = "traceroute"
    /\ ret = Pending
    /\ device.conn = "open"
    /\ device' = [device EXCEPT
                    !.sent = Append(@, TracerouteCommand(call.destination, call.vrf))]
    /\ ret' = traceroute(call.result, call.extracted)
    /\ UNCHANGED <<call, frame, intent>>

NextPing == Ping \/ Traceroute

SpecPing == InitPing /\ [][NextPing]_vars

\* C2: for ping and traceroute, whenever the response contains an explicit
\* error marker '% Error: <msg>', the operation returns (raises nothing) a
\* result that holds exactly that message under 'error' and has no 'success'
\* part, whatever else the response holds.
C2_DeviceErrorWins ==
    (call.op \in {"ping", "traceroute"} /\ ret # Pending /\ intent.known) =>
        /\ ret.exc = "None"
        /\ DOMAIN ret.val = {"error"}
        /\ ret.val.error = intent.val.msg

\* a ping whose response holds a summary that parses and, after it, the
\* marker with 'Host unreachable.' has returned the error
C2_Witness ==
    /\ call.op = "ping"
    /\ intent.known
    /\ SearchSummary(call.result) # <<>>
    /\ ret = Return([error |-> <<"H", "o", "s", "t", " ", "u", "n", "r", "e", "a", "c", "h", "a", "b", "l", "e", ".">>])

(***************************************************************************)
(* The calls of traceroute on a response that reports no error: the        *)
(* records the extractor yields are the input.                             *)
(***************************************************************************)
MaxRecords == 3

TtlTexts == {<<>>, <<"1">>, <<"2">>}

ProbeTexts == {<<>>, <<"1", ".", "5", " ", "m", "s">>, <<"2", " ", "m", "s", " ", " ", "3", " ", "m", "s">>}

\* a probe that timed out prints no time
TimedOut == TraceRecord(<<"1">>, "10.0.0.1", <<"*">>)

TraceRecords ==
    {TraceRecord(t, h, p) : t \in TtlTexts, h \in Hops, p \in ProbeTexts} \cup {TimedOut}

InitTrace ==
    /\ device = OpenDevice
    /\ frame = NoFrame
    /\ ret = Pending
    /\ intent = NA
    /\ \E records \in SeqUpTo(TraceRecords, MaxRecords) :
          call = TracerouteCall("10.0.0.1", "", <<"t", "r", "a", "c", "e", "r", "o", "u", "t", "e", " ", "t", "o", " ", "1", "0", ".", "0", ".", "0", ".", "1">>, records)

NextTrace == Traceroute

SpecTrace == InitTrace /\ [][NextTrace]_vars

\* every TTL is blank or an integer and every probe time a number
CleanRecord(r) ==
    /\ Len(strip(r.ttl)) = 0 \/ PyInt(r.ttl).exc = "None"
    /\ \A i \in DOMAIN ProbeTokens(r.probes) : PyFloat(ProbeTokens(r.probes)[i]).exc = "None"

\* the TTL texts of the records that are not blank
SeenTtls(records) ==
    {i \in DOMAIN records : Len(strip(records[i].ttl)) # 0}

\* C7: for any sequence of extracted records the traceroute returns (a first
\* record with a blank TTL included); every group stands under a TTL that a
\* record carries, its probes are keyed exactly 1..n, and the probes of a
\* record, in the order parsed, close the group of the most recently seen
\* non-blank TTL.
C7_HopGrouping ==
    LET records == call.extracted
        last == records[Len(records)]
        tokens == ProbeTokens(last.probes)
        trace == ret.val.success
        recent == PyInt(records[Max(SeenTtls(records))].ttl).val
        n == Cardinality(DOMAIN trace[recent].probes)
    IN  (/\ call.op = "traceroute"
         /\ ret # Pending
         /\ SearchError(call.result) = <<>>
         /\ \A i \in DOMAIN records : CleanRecord(records[i])) =>
            /\ ret.exc = "None"
            /\ \A t \in DOMAIN trace :
                  /\ \E i \in SeenTtls(records) : PyInt(records[i].ttl).val = t
                  /\ DOMAIN trace[t].probes = 1..Cardinality(DOMAIN trace[t].probes)
            /\ (SeenTtls(records) # {} /\ tokens # <<>>) =>
                  /\ recent \in DOMAIN trace
                  /\ n >= Len(tokens)
                  /\ \A k \in DOMAIN tokens :
                        /\ trace[recent].probes[n - Len(tokens) + k].rtt = PyFloat(tokens[k]).val
                        /\ trace[recent].probes[n - Len(tokens) + k].host_name = last.hop

\* the TTL a record carries
TtlOf(r) == PyInt(r.ttl).val

\* the i-th record carries a TTL other than that of the last record before
\* it that carries one
OpensGroup(records, i) ==
    /\ i \in SeenTtls(records)
    /\ LET before == {j \in SeenTtls(records) : j < i}
       IN  before = {} \/ TtlOf(records[Max(before)]) # TtlOf(records[i])

\* the last record of the run that the i-th record opens
RunEnd(records, i) ==
    LET later == {j \in DOMAIN records : j > i /\ OpensGroup(records, j)}
    IN  IF later = {} THEN Len(records) ELSE Min(later) - 1

\* the probes of the records i..j, in order
RECURSIVE RunProbes(_, _, _)
RunProbes(records, i, j) ==
    IF i > j THEN <<>>
    ELSE [k \in DOMAIN ProbeTokens(records[i].probes) |->
             [rtt |-> PyFloat(ProbeTokens(records[i].probes)[k]).val,
              ip_address |-> records[i].hop, host_name |-> records[i].hop]]
         \o RunProbes(records, i + 1, j)

\* the record that opens the latest run of the TTL t
LatestRun(records, t) ==
    Max({i \in DOMAIN records : OpensGroup(records, i) /\ TtlOf(records[i]) = t})

\* C13: the group of a TTL holds the probes of the latest run of records of
\* that TTL only (the record that brought the TTL back after another TTL,
\* and the records after it up to the next change of TTL), numbered from 1;
\* the probes of earlier runs of the TTL are gone, and records that repeat
\* the current TTL or carry none continue the run and its numbering.
C13_LastSeenWins ==
    (call.op = "traceroute" /\ ret.exc = "None" /\ "success" \in DOMAIN ret.val) =>
        LET records == call.extracted
            trace == ret.val.success
        IN  /\ DOMAIN trace = {TtlOf(records[i]) : i \in SeenTtls(records)}
            /\ \A t \in DOMAIN trace :
                  LET i == LatestRun(records, t)
                      probes == RunProbes(records, i, RunEnd(records, i))
                  IN  /\ DOMAIN trace[t].probes = 1..Len(probes)
                      /\ \A k \in 1..Len(probes) : trace[t].probes[k] = probes[k]

\* TTL 1 came back after TTL 2: its group holds the two probes of the third
\* record, numbered 1 and 2, and not the probe of the first
C13_Witness ==
    /\ call.op = "traceroute"
    /\ ret.exc = "None"
    /\ call.extracted =
          <<TraceRecord(<<"1">>, "10.0.0.1", <<"1", ".", "5", " ", "m", "s">>),
            TraceRecord(<<"2">>, "10.0.0.2", <<"1", ".", "5", " ", "m", "s">>),
            TraceRecord(<<"1">>, "10.0.0.2", <<"2", " ", "m", "s", " ", " ", "3", " ", "m", "s">>)>>
    /\ DOMAIN ret.val.success[1].probes = {1, 2}
    /\ ret.val.success[1].probes[1].rtt = Float(2, 0)
    /\ ret.val.success[1].probes[2].host_name = "10.0.0.2"

(***************************************************************************)
(* get_interfaces_ip (ftos.py 513-577).  ip() is napalm's address          *)
(* validation, outside the repository: it is modelled as the specification *)
(* describes it, on a catalogue of addresses.                              *)
(***************************************************************************)
Letter ==
    {"a", "b", "c", "d", "e", "f", "g", "h", "i", "j", "k", "l", "m", "n", "o", "p", "q",
     "r", "s", "t", "u", "v", "w", "x", "y", "z", "A", "B", "C", "D", "E", "F", "G", "H",
     "I", "J", "K", "L", "M", "N", "O", "P", "Q", "R", "S", "T", "U", "V", "W", "X", "Y",
     "Z"}

\* \w
IsWord(c) == c \in Letter \cup Digit \cup {"_"}

\* the length of the run of \w+ of s from position i
RECURSIVE NameRun(_, _)
NameRun(s, i) ==
    IF i <= Len(s) /\ IsWord(s[i]) THEN 1 + NameRun(s, i + 1) ELSE 0

\* the length of the run of characters of the class cls of s from position i
RECURSIVE ClassRun(_, _, _)
ClassRun(s, i, cls) ==
    IF i <= Len(s) /\ s[i] \in cls THEN 1 + ClassRun(s, i + 1, cls) ELSE 0

\* str.splitlines() for text whose lines end in "\n"
splitlines(text) ==
    IF text = <<>> THEN <<>>
    ELSE IF text[Len(text)] = "\n" THEN SplitOn(SubSeq(text, 1, Len(text) - 1), NewLine)
    ELSE SplitOn(text, NewLine)

\* the ends of r'^(\w+( \d+(\/\d+)?)?)' in line, the longest first: the name
\* with slot and port, with a number, and alone (0 where there is none)
NameEnds(line) ==
    LET n == NameRun(line, 1)
        d == DigitRun(line, n + 2)
        numbered == n > 0 /\ LitAt(line, n + 1, <<" ">>) /\ d > 0
        p == DigitRun(line, n + d + 3)
        ported == numbered /\ LitAt(line, n + d + 2, <<"/">>) /\ p > 0
    IN  <<IF ported THEN n + d + 2 + p ELSE 0, IF numbered THEN n + 1 + d ELSE 0, n>>

\* r' is \w+' at position i (line 525)
FollowsIs(line, i) == LitAt(line, i, <<" ", "i", "s", " ">>) /\ NameRun(line, i + 4) > 0

\* r'\s+' at position i (line 552)
FollowsSpace(line, i) == SpaceRun(line, i) > 0

\* group(1) of the interface pattern of the IPv4 scan (tail "is", line 525)
\* or of the IPv6 scan (tail "space", line 552); <<>> when there is no match
InterfaceMatch(line, tail) ==
    LET ends == NameEnds(line)
        ok == {k \in 1..3 : /\ ends[k] > 0
                            /\ IF tail = "is" THEN FollowsIs(line, ends[k] + 1)
                               ELSE FollowsSpace(line, ends[k] + 1)}
    IN  IF ok = {} THEN <<>> ELSE SubSeq(line, 1, ends[Min(ok)])

\* r'^Internet address is ([0-9\.]+)(?:\/(\d+))?' (line 531): the address
\* and the length (<<>> for None), or <<>>
MatchInternetAddress(line) ==
    LET a == Len(<<"I", "n", "t", "e", "r", "n", "e", "t", " ", "a", "d", "d", "r", "e", "s", "s", " ", "i", "s", " ">>) + 1
        n == ClassRun(line, a, Digit \cup {"."})
        d == IF LitAt(line, a + n, <<"/">>) THEN DigitRun(line, a + n + 1) ELSE 0
    IN  IF startswith(line, <<"I", "n", "t", "e", "r", "n", "e", "t", " ", "a", "d", "d", "r", "e", "s", "s", " ", "i", "s", " ">>) /\ n > 0
        THEN <<SubSeq(line, a, a + n - 1), SubSeq(line, a + n + 1, a + n + d)>>
        ELSE <<>>

HexColon == Digit \cup {"a", "b", "c", "d", "e", "f", ":"}

\* r'^\s*([a-f0-9:]+)(?:\/(\d+))?' (line 558): the address and the length
\* (<<>> for None), or <<>>
MatchIPv6Address(line) ==
    LET a == SpaceRun(line, 1) + 1
        n == ClassRun(line, a, HexColon)
        d == IF LitAt(line, a + n, <<"/">>) THEN DigitRun(line, a + n + 1) ELSE 0
    IN  IF n > 0
        THEN <<SubSeq(line, a, a + n - 1), SubSeq(line, a + n + 1, a + n + d)>>
        ELSE <<>>

\* the catalogue of addresses: text -> normal form
AddressBook ==
    {<<<<"1", "0", ".", "0", ".", "0", ".", "1">>, <<"1", "0", ".", "0", ".", "0", ".", "1">>>>,
     <<<<"1", "9", "2", ".", "1", "6", "8", ".", "1", ".", "1">>, <<"1", "9", "2", ".", "1", "6", "8", ".", "1", ".", "1">>>>,
     <<<<"f", "e", "8", "0", ":", ":", "1">>, <<"f", "e", "8", "0", ":", ":", "1">>>>,
     <<<<"f", "e", "8", "0", ":", "0", ":", "0", ":", "0", ":", "0", ":", "0", ":", "0", ":", "2">>, <<"f", "e", "8", "0", ":", ":", "2">>>>,
     <<<<"2", "0", "0", "1", ":", "d", "b", "8", ":", ":", "1">>, <<"2", "0", "0", "1", ":", "d", "b", "8", ":", ":", "1">>>>}

\* napalm's ip(): the normal form of a valid address, an error otherwise
ip(text) ==
    IF \E e \in AddressBook : e[1] = text
    THEN Return((CHOOSE e \in AddressBook : e[1] = text)[2])
    ELSE Raise("AddrFormatError")

\* iface before the first interface line (lines 522, 549)
NoneKey == <<"None">>

\* the local `mask` before its first assignment
Unbound == 0 - 1

\* lines 533-543: an address line of `show ip interface`; the state is the
\* dict and the local mask
PutIPv4(st, iface, m) ==
    LET addr == st.addr
        base == IF iface \in DOMAIN addr THEN addr ELSE Put(addr, iface, [ipv4 |-> <<>>])
        address == ip(m[1])
        mask == IF m[2] # <<>> THEN ToInt(m[2]) ELSE 32
        stripped == IF m[2] # <<>>
                    THEN Replace(address.val, <<"/">> \o FromInt(mask), <<>>)
                    ELSE address.val
    IN  IF address.exc # "None" THEN address
        ELSE Return([addr |-> Put(base, iface,
                                  Put(base[iface], "ipv4",
                                      Put(base[iface].ipv4, stripped,
                                          [prefix_length |-> mask]))),
                     mask |-> mask])

\* the loop of lines 523-543, iface being the current interface
RECURSIVE IPv4Loop(_, _, _)
IPv4Loop(lines, st, iface) ==
    IF lines = <<>> THEN Return(st)
    ELSE LET line == Head(lines)
             h == InterfaceMatch(line, "is")
             m == MatchInternetAddress(line)
             put == PutIPv4(st, iface, m)
         IN  IF h # <<>> THEN IPv4Loop(Tail(lines), st, h)
             ELSE IF m = <<>> THEN IPv4Loop(Tail(lines), st, iface)
             ELSE IF put.exc # "None" THEN put
             ELSE IPv4Loop(Tail(lines), put.val, iface)

\* the fall-back to 128 left out: the local keeps its last value
IPv6Mask_Leaks(address, length, mask) ==
    IF length # <<>> THEN ToInt(length)
    ELSE IF startswith(address, <<"f", "e", "8", "0">>) THEN 64
    ELSE mask

\* lines 566-572: the prefix length of an IPv6 address line, mask being the
\* value the local holds from the line before
IPv6Mask(address, length, mask) ==
    IF length # <<>> THEN ToInt(length)
    ELSE IF startswith(address, <<"f", "e", "8", "0">>) THEN 64
    ELSE 128

\* lines 560-575: an address line of `show ipv6 interface brief`
PutIPv6(st, iface, m) ==
    LET addr == st.addr
        base == IF iface \notin DOMAIN addr THEN Put(addr, iface, [ipv6 |-> <<>>])
                ELSE IF "ipv6" \notin DOMAIN addr[iface]
                     THEN Put(addr, iface, Put(addr[iface], "ipv6", <<>>))
                ELSE addr
        address == ip(m[1])
        mask == IPv6Mask(address.val, m[2], st.mask)
        stripped == IF m[2] # <<>>
                    THEN Replace(address.val, <<"/">> \o FromInt(mask), <<>>)
                    ELSE address.val
    IN  IF address.exc # "None" THEN address
        ELSE Return([addr |-> Put(base, iface,
                                  Put(base[iface], "ipv6",
                                      Put(base[iface].ipv6, stripped,
                                          [prefix_length |-> mask]))),
                     mask |-> mask])

\* the loop of lines 550-575
RECURSIVE IPv6Loop(_, _, _)
IPv6Loop(lines, st, iface) ==
    IF lines = <<>> THEN Return(st)
    ELSE LET line == Head(lines)
             h == InterfaceMatch(line, "space")
             m == MatchIPv6Address(line)
             put == PutIPv6(st, iface, m)
         IN  IF h # <<>> THEN IPv6Loop(Tail(lines), st, h)
             ELSE IF m = <<>> THEN IPv6Loop(Tail(lines), st, iface)
             ELSE IF put.exc # "None" THEN put
             ELSE IPv6Loop(Tail(lines), put.val, iface)

\* lines 515-577, given the two responses
get_interfaces_ip(ip_res, ip6_res) ==
    LET v4 == IPv4Loop(splitlines(ip_res), [addr |-> <<>>, mask |-> Unbound], NoneKey)
        v6 == IPv6Loop(splitlines(ip6_res), v4.val, NoneKey)
    IN  IF v4.exc # "None" THEN v4
        ELSE IF v6.exc # "None" THEN v6
        ELSE Return(v6.val.addr)

(***************************************************************************)
(* The calls of get_interfaces_ip.  The two responses are rendered line by *)
(* line from interface headers, address lines and other lines, which       *)
(* `intent` keeps.                                                         *)
(***************************************************************************)
MaxLines == 3

IfaceTen == <<"T", "e", "n", "G", "i", "g", "a", "b", "i", "t", "E", "t", "h", "e", "r", "n", "e", "t", " ", "0", "/", "1">>
IfaceVlan == <<"V", "l", "a", "n", " ", "1", "0", "0">>

HeaderLine(name) == [kind |-> "iface", name |-> name]
AddressLine(address, length) == [kind |-> "address", address |-> address, length |-> length]
OtherLine(text) == [kind |-> "other", text |-> text]

\* the length of an address line that states none
NoLength == 0 - 1

IPv4Lines ==
    {HeaderLine(IfaceTen), HeaderLine(IfaceVlan),
     AddressLine(<<"1", "0", ".", "0", ".", "0", ".", "1">>, NoLength), AddressLine(<<"1", "0", ".", "0", ".", "0", ".", "1">>, 24),
     AddressLine(<<"1", "9", "2", ".", "1", "6", "8", ".", "1", ".", "1">>, 0), OtherLine(<<"I", "P", " ", "M", "T", "U", " ", "i", "s", " ", "1", "5", "0", "0", " ", "b", "y", "t", "e", "s">>)}

IPv6Lines ==
    {HeaderLine(IfaceTen), HeaderLine(IfaceVlan),
     AddressLine(<<"f", "e", "8", "0", ":", ":", "1">>, NoLength), AddressLine(<<"f", "e", "8", "0", ":", ":", "1">>, 10),
     AddressLine(<<"f", "e", "8", "0", ":", "0", ":", "0", ":", "0", ":", "0", ":", "0", ":", "0", ":", "2">>, NoLength),
     AddressLine(<<"2", "0", "0", "1", ":", "d", "b", "8", ":", ":", "1">>, NoLength), AddressLine(<<"2", "0", "0", "1", ":", "d", "b", "8", ":", ":", "1">>, 64),
     OtherLine(<<>>)}

FewIPv4 ==
    {<<>>, <<AddressLine(<<"1", "0", ".", "0", ".", "0", ".", "1">>, NoLength)>>,
     <<HeaderLine(IfaceTen), AddressLine(<<"1", "9", "2", ".", "1", "6", "8", ".", "1", ".", "1">>, 24)>>}

FewIPv6 ==
    {<<>>, <<AddressLine(<<"2", "0", "0", "1", ":", "d", "b", "8", ":", ":", "1">>, NoLength)>>,
     <<HeaderLine(IfaceTen), AddressLine(<<"f", "e", "8", "0", ":", ":", "1">>, 64)>>}

RenderLength(l) ==
    IF l.length = NoLength THEN <<>> ELSE <<"/">> \o FromInt(l.length)

\* a line of `show ip interface`
RenderIPv4Line(l) ==
    IF l.kind = "iface" THEN l.name \o <<" ", "i", "s", " ", "u", "p", ",", " ", "l", "i", "n", "e", " ", "p", "r", "o", "t", "o", "c", "o", "l", " ", "i", "s", " ", "u", "p">>
    ELSE IF l.kind = "address" THEN <<"I", "n", "t", "e", "r", "n", "e", "t", " ", "a", "d", "d", "r", "e", "s", "s", " ", "i", "s", " ">> \o l.address \o RenderLength(l)
    ELSE l.text

\* a line of `show ipv6 interface brief`
RenderIPv6Line(l) ==
    IF l.kind = "iface" THEN l.name \o <<" ", " ", " ", " ", " ", "[", "u", "p", "/", "u", "p", "]">>
    ELSE IF l.kind = "address" THEN <<" ", " ", " ", " ">> \o l.address \o RenderLength(l)
    ELSE l.text

\* the response: every line with its line break
RECURSIVE RenderLines(_, _)
RenderLines(lines, family) ==
    IF lines = <<>> THEN <<>>
    ELSE (IF family = "ipv4" THEN RenderIPv4Line(Head(lines))
          ELSE RenderIPv6Line(Head(lines)))
         \o NewLine \o RenderLines(Tail(lines), family)

InterfacesIpCall(v4, v6) ==
    [op |-> "get_interfaces_ip", ip_res |-> RenderLines(v4, "ipv4"),
     ip6_res |-> RenderLines(v6, "ipv6")]

InitIp ==
    /\ device = OpenDevice
    /\ frame = NoFrame
    /\ ret = Pending
    /\ \/ \E v4 \in SeqUpTo(IPv4Lines, MaxLines), v6 \in FewIPv6 :
             /\ call = InterfacesIpCall(v4, v6)
             /\ intent = Known([ipv4 |-> v4, ipv6 |-> v6])
       \/ \E v4 \in FewIPv4, v6 \in SeqUpTo(IPv6Lines, MaxLines) :
             /\ call = InterfacesIpCall(v4, v6)
             /\ intent = Known([ipv4 |-> v4, ipv6 |-> v6])

\* get_interfaces_ip: both commands are sent, the device answers
\* call.ip_res and call.ip6_res
GetInterfacesIp ==
    /\ call.op = "get_interfaces_ip"
    /\ ret = Pending
    /\ device.conn = "open"
    /\ device' = [device EXCEPT
                    !.sent = @ \o <<"show ip interface", "show ipv6 interface brief">>]
    /\ ret' = get_interfaces_ip(call.ip_res, call.ip6_res)
    /\ UNCHANGED <<call, frame, intent>>

NextIp == GetInterfacesIp

SpecIp == InitIp /\ [][NextIp]_vars

\* the interface an address line stands under: that of the last header
\* before it
Owner(lines, i) ==
    LET headers == {j \in 1..i : lines[j].kind = "iface"}
    IN  IF headers = {} THEN NoneKey ELSE lines[Max(headers)].name

\* line i is the last address line of its interface and address
LastOf(lines, i) ==
    /\ lines[i].kind = "address"
    /\ \A j \in (i + 1)..Len(lines) :
          ~(/\ lines[j].kind = "address"
            /\ Owner(lines, j) = Owner(lines, i)
            /\ ip(lines[j].address) = ip(lines[i].address))

\* the prefix length an address line of a family is to get
ClaimedLength(family, l) ==
    IF l.length # NoLength THEN l.length
    ELSE IF family = "ipv4" THEN 32
    ELSE IF SubSeq(l.address, 1, 4) = <<"f", "e", "8", "0">> THEN 64
    ELSE 128

\* C8: an address line with an explicit '/<n>' gets prefix_length n; with
\* none an IPv4 address gets 32, an IPv6 address beginning 'fe80' 64 and any
\* other IPv6 address 128, whatever the lines scanned before it held.
C8_PrefixLengths ==
    (call.op = "get_interfaces_ip" /\ ret # Pending) =>
        /\ ret.exc = "None"
        /\ \A family \in {"ipv4", "ipv6"} :
              LET lines == intent.val[family]
              IN  \A i \in DOMAIN lines :
                     LastOf(lines, i) =>
                        ret.val[Owner(lines, i)][family][ip(lines[i].address).val].prefix_length
                           = ClaimedLength(family, lines[i])

\* an IPv6 address with no length, 2001:db8::1, was scanned right after a
\* line that stated the length 10, and got 128
C8_Witness ==
    /\ call.op = "get_interfaces_ip"
    /\ ret # Pending
    /\ intent.val.ipv6 = <<HeaderLine(IfaceVlan), AddressLine(<<"f", "e", "8", "0", ":", ":", "1">>, 10),
                           AddressLine(<<"2", "0", "0", "1", ":", "d", "b", "8", ":", ":", "1">>, NoLength)>>
    /\ ret.val[IfaceVlan].ipv6[<<"2", "0", "0", "1", ":", "d", "b", "8", ":", ":", "1">>].prefix_length = 128
    /\ ret.val[IfaceVlan].ipv6[<<"f", "e", "8", "0", ":", ":", "1">>].prefix_length = 10

(***************************************************************************)
(* get_snmp_information (ftos.py 624-655)                                  *)
(***************************************************************************)
Quote == "\""

RECURSIVE lstripQuotes(_)
lstripQuotes(s) == IF s # <<>> /\ Head(s) = Quote THEN lstripQuotes(Tail(s)) ELSE s

RECURSIVE rstripQuotes(_)
rstripQuotes(s) ==
    IF s # <<>> /\ s[Len(s)] = Quote THEN rstripQuotes(SubSeq(s, 1, Len(s) - 1))
    ELSE s

\* str.strip('"')
stripQuotes(s) == rstripQuotes(lstripQuotes(s))

\* r'^snmp-server community ([^\s]+) ([^\s]+)(?: ([^\s]+))?' (line 638): the
\* three groups (<<>> for None), or <<>>
MatchCommunity(line) ==
    LET a == Len(<<"s", "n", "m", "p", "-", "s", "e", "r", "v", "e", "r", " ", "c", "o", "m", "m", "u", "n", "i", "t", "y", " ">>) + 1
        na == WordRun(line, a)
        b == a + na + 1
        nb == WordRun(line, b)
        c == b + nb + 1
        nc == IF LitAt(line, b + nb, <<" ">>) THEN WordRun(line, c) ELSE 0
    IN  IF /\ startswith(line, <<"s", "n", "m", "p", "-", "s", "e", "r", "v", "e", "r", " ", "c", "o", "m", "m", "u", "n", "i", "t", "y", " ">>)
           /\ na > 0 /\ LitAt(line, a + na, <<" ">>)
           /\ nb > 0
        THEN <<SubSeq(line, a, a + na - 1), SubSeq(line, b, b + nb - 1),
               SubSeq(line, c, c + nc - 1)>>
        ELSE <<>>

\* line 629-634
NoSnmp == [chassis_id |-> <<>>, community |-> <<>>, contact |-> <<>>, location |-> <<>>]

\* lines 637-653: one pass of the loop
SnmpLine(info, line) ==
    LET m == MatchCommunity(strip(line))
        com == [mode |-> m[2], acl |-> IF m[3] # <<>> THEN m[3] ELSE <<"N", "/", "A">>]
    IN  IF Contains(line, <<"c", "o", "m", "m", "u", "n", "i", "t", "y">>)
        THEN IF m = <<>> THEN info
             ELSE [info EXCEPT !.community = Put(info.community, m[1], com)]
        ELSE IF Contains(line, <<"l", "o", "c", "a", "t", "i", "o", "n">>)
        THEN [info EXCEPT !.location =
                 stripQuotes(Replace(strip(line), <<"s", "n", "m", "p", "-", "s", "e", "r", "v", "e", "r", " ", "l", "o", "c", "a", "t", "i", "o", "n", " ">>, <<>>))]
        ELSE IF Contains(line, <<"c", "o", "n", "t", "a", "c", "t">>)
        THEN [info EXCEPT !.contact =
                 stripQuotes(Replace(strip(line), <<"s", "n", "m", "p", "-", "s", "e", "r", "v", "e", "r", " ", "c", "o", "n", "t", "a", "c", "t", " ">>, <<>>))]
        ELSE info

\* the loop of lines 636-653
RECURSIVE SnmpLoop(_, _)
SnmpLoop(info, lines) ==
    IF lines = <<>> THEN info
    ELSE SnmpLoop(SnmpLine(info, Head(lines)), Tail(lines))

get_snmp_information(snmp) == SnmpLoop(NoSnmp, splitlines(snmp))

(***************************************************************************)
(* The calls of get_snmp_information: the configuration excerpt is         *)
(* rendered from community, contact and location statements, which         *)
(* `intent` keeps.                                                         *)
(***************************************************************************)
MaxSnmpLines == 2

CommunityLine(name, mode, acl) ==
    [kind |-> "community", name |-> name, mode |-> mode, acl |-> acl]

ValueLine(kind, value, quoted) == [kind |-> kind, value |-> value, quoted |-> quoted]

ContactValues == {<<"n", "o", "c">>, <<"c", "o", "m", "m", "u", "n", "i", "t", "y", " ", "d", "e", "s", "k">>, <<"o", "n", " ", "l", "o", "c", "a", "t", "i", "o", "n">>}

LocationValues == {<<"l", "a", "b">>, <<"c", "o", "m", "m", "u", "n", "i", "t", "y", " ", "h", "a", "l", "l">>, <<"c", "o", "n", "t", "a", "c", "t", " ", "d", "e", "s", "k">>}

SnmpLines ==
    {CommunityLine(<<"p", "u", "b", "l", "i", "c">>, <<"r", "o">>, <<>>), CommunityLine(<<"s", "e", "c", "r", "e", "t">>, <<"r", "w">>, <<"A", "C", "L", "1">>)}
    \cup {ValueLine("contact", v, q) : v \in ContactValues, q \in BOOLEAN}
    \cup {ValueLine("location", v, q) : v \in LocationValues, q \in BOOLEAN}
    \cup {[kind |-> "other"]}

RenderValue(l) == IF l.quoted THEN <<Quote>> \o l.value \o <<Quote>> ELSE l.value

RenderSnmpLine(l) ==
    IF l.kind = "community"
    THEN <<"s", "n", "m", "p", "-", "s", "e", "r", "v", "e", "r", " ", "c", "o", "m", "m", "u", "n", "i", "t", "y", " ">> \o l.name \o <<" ">> \o l.mode
         \o (IF l.acl # <<>> THEN <<" ">> \o l.acl ELSE <<>>)
    ELSE IF l.kind = "contact" THEN <<"s", "n", "m", "p", "-", "s", "e", "r", "v", "e", "r", " ", "c", "o", "n", "t", "a", "c", "t", " ">> \o RenderValue(l)
    ELSE IF l.kind = "location" THEN <<"s", "n", "m", "p", "-", "s", "e", "r", "v", "e", "r", " ", "l", "o", "c", "a", "t", "i", "o", "n", " ">> \o RenderValue(l)
    ELSE <<"s", "n", "m", "p", "-", "s", "e", "r", "v", "e", "r", " ", "e", "n", "a", "b", "l", "e", " ", "t", "r", "a", "p", "s">>

RECURSIVE RenderSnmp(_)
RenderSnmp(lines) ==
    IF lines = <<>> THEN <<>>
    ELSE RenderSnmpLine(Head(lines)) \o NewLine \o RenderSnmp(Tail(lines))

InitSnmp ==
    /\ device = OpenDevice
    /\ frame = NoFrame
    /\ ret = Pending
    /\ \E lines \in SeqUpTo(SnmpLines, MaxSnmpLines) :
          /\ call = [op |-> "get_snmp_information", snmp |-> RenderSnmp(lines)]
          /\ intent = Known(lines)

\* get_snmp_information: the command is sent and the device answers call.snmp
GetSnmpInformation ==
    /\ call.op = "get_snmp_information"
    /\ ret = Pending
    /\ device.conn = "open"
    /\ device' = [device EXCEPT !.sent = Append(@, "show running-config snmp")]
    /\ ret' = Return(get_snmp_information(call.snmp))
    /\ UNCHANGED <<call, frame, intent>>

NextSnmp == GetSnmpInformation

SpecSnmp == InitSnmp /\ [][NextSnmp]_vars

\* the value of the last statement of a kind, <<>> when there is none
LastValue(lines, kind) ==
    LET of == {i \in DOMAIN lines : lines[i].kind = kind}
    IN  IF of = {} THEN <<>> ELSE lines[Max(of)].value

\* C10: the three scanners are independent: contact is the value of the last
\* 'snmp-server contact' statement and location that of the last
\* 'snmp-server location' statement, prefix and quotes removed, whatever
\* other keyword the text of a statement contains.
C10_IndependentScanners ==
    (call.op = "get_snmp_information" /\ ret # Pending) =>
        /\ ret.val.contact = LastValue(intent.val, "contact")
        /\ ret.val.location = LastValue(intent.val, "location")

(***************************************************************************)
(* The operations that cast extracted fields: get_arp_table (152-174),     *)
(* get_mac_address_table (408-425) and get_interfaces_counters (474-511).  *)
(* The extractor and its templates are outside the source: the records it  *)
(* hands over are inputs of the calls, every field a text, empty when the  *)
(* template matched nothing for it.  napalm's mac() is outside the         *)
(* repository as well and is modelled, like ip(), on a catalogue.          *)
(***************************************************************************)
\* the catalogue of hardware addresses: text -> normal form
MacBook ==
    {<<<<"0", "0", ":", "0", "1", ":", "e", "8", ":", "8", "b", ":", "4", "4", ":", "7", "1">>, <<"0", "0", ":", "0", "1", ":", "E", "8", ":", "8", "B", ":", "4", "4", ":", "7", "1">>>>,
     <<<<"0", "0", "0", "1", ".", "e", "8", "8", "b", ".", "4", "4", "7", "2">>, <<"0", "0", ":", "0", "1", ":", "E", "8", ":", "8", "B", ":", "4", "4", ":", "7", "2">>>>}

\* napalm's mac(): the normal form of a valid address, an error otherwise
mac(text) ==
    IF \E e \in MacBook : e[1] = text
    THEN Return((CHOOSE e \in MacBook : e[1] = text)[2])
    ELSE Raise("AddrFormatError")

\* float * 60 (line 168)
Times60(f) == Float(60 * f.num, f.scale)

\* lines 160-172: one pass of the loop of get_arp_table
ArpEntry(arp) ==
    LET address == ip(arp.ip)
        hw == mac(arp.mac)
        age == PyFloat(arp.age)
    IN  IF address.exc # "None" THEN address
        ELSE IF hw.exc # "None" THEN hw
        ELSE Return([interface |-> arp.interface,
                     ip |-> address.val,
                     mac |-> hw.val,
                     age |-> IF age.exc = "ValueError" THEN Float(0 - 10, 1)
                             ELSE Times60(age.val)])

\* the loop of lines 159-172
RECURSIVE ArpLoop(_, _)
ArpLoop(table, entries) ==
    LET entry == ArpEntry(Head(entries))
    IN  IF entries = <<>> THEN Return(table)
        ELSE IF entry.exc # "None" THEN entry
        ELSE ArpLoop(Append(table, entry.val), Tail(entries))

get_arp_table(arp_entries) == ArpLoop(<<>>, arp_entries)

\* line 417: int(entry['vlan'])
MacVlan(vlan) == PyInt(vlan)

\* lines 415-423: one pass of the loop of get_mac_address_table
MacEntry(entry) ==
    LET hw == mac(entry.mac)
        vlan == MacVlan(entry.vlan)
    IN  IF hw.exc # "None" THEN hw
        ELSE IF vlan.exc # "None" THEN vlan
        ELSE Return([mac |-> hw.val,
                     interface |-> _canonical_interface_name(entry.interface),
                     vlan |-> vlan.val,
                     static |-> entry.static = <<"S", "t", "a", "t", "i", "c">>,
                     active |-> entry.active = <<"A", "c", "t", "i", "v", "e">>,
                     moves |-> 0 - 1,
                     last_move |-> Float(0 - 10, 1)])

\* the loop of lines 414-423
RECURSIVE MacLoop(_, _)
MacLoop(mac_table, entries) ==
    LET entry == MacEntry(Head(entries))
    IN  IF entries = <<>> THEN Return(mac_table)
        ELSE IF entry.exc # "None" THEN entry
        ELSE MacLoop(Append(mac_table, entry.val), Tail(entries))

get_mac_address_table(mac_entries) == MacLoop(<<>>, mac_entries)

\* the table with the discards of both directions left under their raw names
key_map_RawDiscards ==
    <<<<"rx_octets", "rx_octets">>,
      <<"rx_unicast", "rx_unicast_packets">>,
      <<"rx_mcast", "rx_multicast_packets">>,
      <<"rx_bcast", "rx_broadcast_packets">>,
      <<"rx_dcard", "rx_dcard">>,
      <<"tx_octets", "tx_octets">>,
      <<"tx_unicast", "tx_unicast_packets">>,
      <<"tx_mcast", "tx_multicast_packets">>,
      <<"tx_bcast", "tx_broadcast_packets">>,
      <<"tx_dcard", "tx_dcard">>>>

\* lines 478-489, each key as the pair <<src, dst>> of lines 496-500
key_map ==
    <<<<"rx_octets", "rx_octets">>,
      <<"rx_unicast", "rx_unicast_packets">>,
      <<"rx_mcast", "rx_multicast_packets">>,
      <<"rx_bcast", "rx_broadcast_packets">>,
      <<"rx_dcard", "rx_discards">>,
      <<"tx_octets", "tx_octets">>,
      <<"tx_unicast", "tx_unicast_packets">>,
      <<"tx_mcast", "tx_multicast_packets">>,
      <<"tx_bcast", "tx_broadcast_packets">>,
      <<"tx_dcard", "tx_discards">>>>

\* lines 495-505: the loop over key_map from its k-th key on
RECURSIVE CounterLoop(_, _, _)
CounterLoop(iface, entry, k) ==
    LET src == key_map[k][1]
        dst == key_map[k][2]
        n == PyInt(entry[src])
    IN  IF k > Len(key_map) THEN iface
        ELSE CounterLoop(Put(iface, dst, IF n.exc = "ValueError" THEN 0 ELSE n.val),
                         entry, k + 1)

\* the loop of lines 490-509
RECURSIVE CountersLoop(_, _)
CountersLoop(interfaces, entries) ==
    LET entry == Head(entries)
        iface == CounterLoop([rx_errors |-> 0, tx_errors |-> 0], entry, 1)
    IN  IF entries = <<>> THEN interfaces
        ELSE CountersLoop(Put(interfaces, _canonical_interface_name(entry.iface_name), iface),
                          Tail(entries))

get_interfaces_counters(iface_entries) == Return(CountersLoop(<<>>, iface_entries))

(***************************************************************************)
(* The calls of the casting operations.  A record of `show interfaces` is  *)
(* written for an interface whose counters are all numbers but for one     *)
(* field that is unset or unparsable, or for a boundary record whose       *)
(* counters are all unset; `intent` keeps what the records were written    *)
(* for.                                                                    *)
(***************************************************************************)
MaxEntries == 1

MaxIfaces == 2

NumericTexts == {<<"1", "0">>, <<>>, <<"N", "/", "A">>, <<" ", "7">>, <<"0", ".", "5">>}

ArpRecords ==
    {[interface |-> i, ip |-> a, mac |-> <<"0", "0", ":", "0", "1", ":", "e", "8", ":", "8", "b", ":", "4", "4", ":", "7", "1">>, age |-> t] :
        i \in {<<"T", "e", " ", "0", "/", "1">>, <<"M", "a", " ", "0", "/", "0">>}, a \in {<<"1", "0", ".", "0", ".", "0", ".", "1">>, <<"1", "9", "2", ".", "1", "6", "8", ".", "1", ".", "1">>},
        t \in NumericTexts}

MacRecords ==
    {[mac |-> <<"0", "0", "0", "1", ".", "e", "8", "8", "b", ".", "4", "4", "7", "2">>, interface |-> i, vlan |-> t, static |-> st, active |-> ac] :
        i \in {<<"T", "e", " ", "0", "/", "1">>, <<"V", "l", " ", "1", "0">>}, t \in NumericTexts,
        st \in {<<"S", "t", "a", "t", "i", "c">>, <<"D", "y", "n", "a", "m", "i", "c">>}, ac \in {<<"A", "c", "t", "i", "v", "e">>, <<"I", "n", "a", "c", "t", "i", "v", "e">>}}

\* the counter fields of the template, in the order of the table
RawCounters ==
    <<"rx_octets", "rx_unicast", "rx_mcast", "rx_bcast", "rx_dcard",
      "tx_octets", "tx_unicast", "tx_mcast", "tx_bcast", "tx_dcard">>

\* what a record is written for: the interface, and which counter fields
\* carry no number (unset: empty text; junk: text that is no number)
CounterIntents ==
    {[name |-> IfaceTen, unset |-> u, junk |-> j] :
        u \in {{}} \cup {{k} : k \in DOMAIN RawCounters}, j \in {{}}}
    \cup {[name |-> IfaceTen, unset |-> {}, junk |-> {k}] : k \in DOMAIN RawCounters}
    \cup {[name |-> n, unset |-> DOMAIN RawCounters, junk |-> {}] : n \in {IfaceTen, IfaceVlan}}
    \cup {[name |-> IfaceVlan, unset |-> {3}, junk |-> {8}]}

\* the number the k-th counter field is written for
CounterValue(k) == 1000 * k + 7

RenderCounters(c) ==
    [f \in {"iface_name"} \cup {RawCounters[k] : k \in DOMAIN RawCounters} |->
        IF f = "iface_name" THEN c.name
        ELSE LET k == CHOOSE i \in DOMAIN RawCounters : RawCounters[i] = f
             IN  IF k \in c.unset THEN <<>>
                 ELSE IF k \in c.junk THEN <<"-", "-">>
                 ELSE FromInt(CounterValue(k))]

InitCast ==
    /\ device = OpenDevice
    /\ frame = NoFrame
    /\ ret = Pending
    /\ \/ \E es \in SeqUpTo(ArpRecords, MaxEntries) :
             /\ call = [op |-> "get_arp_table", extracted |-> es]
             /\ intent = NA
       \/ \E es \in SeqUpTo(MacRecords, MaxEntries) :
             /\ call = [op |-> "get_mac_address_table", extracted |-> es]
             /\ intent = NA
       \/ \E cs \in SeqUpTo(CounterIntents, MaxIfaces) :
             /\ call = [op |-> "get_interfaces_counters",
                        extracted |-> [i \in DOMAIN cs |-> RenderCounters(cs[i])]]
             /\ intent = Known(cs)

\* get_arp_table: the command is sent and its output extracted
GetArpTable ==
    /\ call.op = "get_arp_table"
    /\ ret = Pending
    /\ device.conn = "open"
    /\ device' = [device EXCEPT !.sent = Append(@, "show arp")]
    /\ ret' = get_arp_table(call.extracted)
    /\ UNCHANGED <<call, frame, intent>>

\* get_mac_address_table
GetMacAddressTable ==
    /\ call.op = "get_mac_address_table"
    /\ ret = Pending
    /\ device.conn = "open"
    /\ device' = [device EXCEPT !.sent = Append(@, "show mac-address-table")]
    /\ ret' = get_mac_address_table(call.extracted)
    /\ UNCHANGED <<call, frame, intent>>

\* get_interfaces_counters, through _get_interfaces_detail (lines 427-429)
GetInterfacesCounters ==
    /\ call.op = "get_interfaces_counters"
    /\ ret = Pending
    /\ device.conn = "open"
    /\ device' = [device EXCEPT !.sent = Append(@, "show interfaces")]
    /\ ret' = get_interfaces_counters(call.extracted)
    /\ UNCHANGED <<call, frame, intent>>

NextCast == GetArpTable \/ GetMacAddressTable \/ GetInterfacesCounters

SpecCast == InitCast /\ [][NextCast]_vars

\* C3: a numeric cast that fails on an extracted field is resolved by the
\* field's fallback and never surfaces: whatever text the numeric fields of
\* the records hold, the operation returns a result and raises nothing.
C3_CastsNeverSurface ==
    (call.op \in {"get_arp_table", "get_mac_address_table", "get_interfaces_counters"}
        /\ ret # Pending) => ret.exc = "None"

\* the canonical counter keys, in the order of the raw fields
CanonicalCounters ==
    <<"rx_octets", "rx_unicast_packets", "rx_multicast_packets",
      "rx_broadcast_packets", "rx_discards",
      "tx_octets", "tx_unicast_packets", "tx_multicast_packets",
      "tx_broadcast_packets", "tx_discards">>

\* the key an interface is filed under
CounterKey(c) == _canonical_interface_name(c.name)

\* the i-th record is the last one written for its interface
LastCounters(cs, i) ==
    \A j \in DOMAIN cs : j > i => CounterKey(cs[j]) # CounterKey(cs[i])

\* C9: get_interfaces_counters returns, for every extracted interface
\* record, an entry with exactly the twelve canonical keys; a counter whose
\* raw field is unset or unparsable is 0, any other is the number of its raw
\* field, and rx_errors and tx_errors are 0.
C9_FullKeySet ==
    (call.op = "get_interfaces_counters" /\ ret # Pending) =>
        /\ ret.exc = "None"
        /\ DOMAIN ret.val = {CounterKey(intent.val[i]) : i \in DOMAIN intent.val}
        /\ \A i \in DOMAIN intent.val :
              LastCounters(intent.val, i) =>
                 LET c == intent.val[i]
                     e == ret.val[CounterKey(c)]
                 IN  /\ DOMAIN e = {CanonicalCounters[k] : k \in DOMAIN CanonicalCounters}
                                      \cup {"rx_errors", "tx_errors"}
                     /\ e.rx_errors = 0
                     /\ e.tx_errors = 0
                     /\ \A k \in DOMAIN CanonicalCounters :
                           e[CanonicalCounters[k]] =
                              IF k \in c.unset \cup c.junk THEN 0 ELSE CounterValue(k)

\* a record with one unset and one unparsable counter has been converted
C9_Witness ==
    /\ call.op = "get_interfaces_counters"
    /\ ret # Pending
    /\ ret.exc = "None"
    /\ intent.val = <<[name |-> IfaceVlan, unset |-> {3}, junk |-> {8}]>>
    /\ ret.val[CounterKey(intent.val[1])].rx_multicast_packets = 0
    /\ ret.val[CounterKey(intent.val[1])].tx_multicast_packets = 0
    /\ ret.val[CounterKey(intent.val[1])].tx_discards = 10007

(***************************************************************************)
(* The transport: _send_command (ftos.py 65-76).  device.send_command      *)
(* either answers with the output of the command or fails with a           *)
(* socket.error or an EOFError.                                            *)
(***************************************************************************)
Answer(output) == [kind |-> "answer", output |-> output]

TransportFailures == {[kind |-> "socket.error"], [kind |-> "EOFError"]}

\* the except clause left out and the failure turned into an empty output
_send_command_Swallows(outcome) ==
    IF outcome \in TransportFailures THEN Return(<<>>) ELSE Return(outcome.output)

\* lines 66-76 around one device.send_command call, given what the call did
_send_command(outcome) ==
    IF outcome \in TransportFailures THEN Raise("ConnectionException")
    ELSE Return(outcome.output)

(***************************************************************************)
(* get_config (ftos.py 240-254)                                            *)
(***************************************************************************)
RunningCommand == "show running-config"

StartupCommand == "show startup-config"

\* lines 242-246
NoConfig ==
    [startup |-> <<>>, running |-> <<>>, candidate |-> <<"N", "o", "t", " ", "i", "m", "p", "l", "e", "m", "e", "n", "t", "e", "d", " ", "f", "o", "r", " ", "F", "T", "O", "S">>]

\* the commands get_config sends, in order (lines 248-252)
ConfigCommands(retrieve) ==
    (IF retrieve \in {"all", "running"} THEN <<RunningCommand>> ELSE <<>>)
    \o (IF retrieve \in {"all", "startup"} THEN <<StartupCommand>> ELSE <<>>)

\* lines 249 and 252: the output of a command is stored under its key
ConfigStore(config, command, output) ==
    IF command = RunningCommand THEN [config EXCEPT !.running = output]
    ELSE [config EXCEPT !.startup = output]

(***************************************************************************)
(* get_environment (ftos.py 256-305)                                       *)
(***************************************************************************)
\* "%d" % n
FormatInt(n) == IF n < 0 THEN <<"-">> \o FromInt(0 - n) ELSE FromInt(n)

\* "Unit %d" % int(unit) (lines 276, 294)
UnitName(unit) ==
    LET n == PyInt(unit)
    IN  IF n.exc # "None" THEN n ELSE Return(<<"U", "n", "i", "t", " ">> \o FormatInt(n.val))

\* lines 258-267
NoEnvironment ==
    [fans |-> <<>>, temperature |-> <<>>, power |-> <<>>, cpu |-> <<>>,
     memory |-> [available_ram |-> 0, used_ram |-> 0]]

\* lines 275-288: the loop over the sensor records
RECURSIVE SensorLoop(_, _)
SensorLoop(env, entries) ==
    LET entry == Head(entries)
        name == UnitName(entry.unit)
        temperature == PyFloat(entry.temperature)
        sensor == [temperature |-> temperature.val,
                   is_alert |-> entry.temp_status # <<"2">>,
                   is_critical |-> entry.temp_status # <<"2">>]
        power == [status |-> entry.volt_status = <<"o", "k">>,
                  capacity |-> Float(0 - 10, 1), output |-> Float(0 - 10, 1)]
    IN  IF entries = <<>> THEN Return(env)
        ELSE IF name.exc # "None" THEN name
        ELSE IF temperature.exc # "None" THEN temperature
        ELSE SensorLoop([env EXCEPT !.temperature = Put(env.temperature, name.val, sensor),
                                    !.power = Put(env.power, name.val, power)],
                        Tail(entries))

\* lines 293-296: the loop over the CPU records
RECURSIVE CpuLoop(_, _)
CpuLoop(env, entries) ==
    LET entry == Head(entries)
        usage == PyFloat(entry.omin)
        name == UnitName(entry.unit)
    IN  IF entries = <<>> THEN Return(env)
        ELSE IF usage.exc # "None" THEN usage
        ELSE IF name.exc # "None" THEN name
        ELSE CpuLoop([env EXCEPT !.cpu = Put(env.cpu, name.val, Put(<<>>, "%usage", usage.val))],
                     Tail(entries))

\* lines 301-303: the loop over the memory records
RECURSIVE MemoryLoop(_, _)
MemoryLoop(env, entries) ==
    LET entry == Head(entries)
        total == PyInt(entry.total)
        used == PyInt(entry.used)
    IN  IF entries = <<>> THEN Return(env)
        ELSE IF total.exc # "None" THEN total
        ELSE IF used.exc # "None" THEN used
        ELSE MemoryLoop([env EXCEPT !.memory =
                            [available_ram |-> env.memory.available_ram + total.val,
                             used_ram |-> env.memory.used_ram + used.val]],
                        Tail(entries))

EnvironmentCommands ==
    <<"show environment stack-unit", "show processes cpu summary", "show memory">>

(***************************************************************************)
(* get_interfaces (ftos.py 431-472)                                        *)
(***************************************************************************)
\* int(speed[0]*1000) (line 463): the text written a thousand times over is
\* a decimal numeral when the text is a run of digits, too long to write
\* out: it is kept as the text and the number of copies, unless every digit
\* is "0" and the numeral stands for 0
RepeatedInt(text) ==
    IF text = <<>> \/ DigitRun(text, 1) # Len(text) THEN Raise("ValueError")
    ELSE IF \A i \in DOMAIN text : text[i] = "0" THEN Return(0)
    ELSE Return([copies |-> 1000, of |-> text])

\* lines 457-463: the speed of an entry, 0 unless line_speed ends in "bit"
LineSpeed(line_speed) ==
    LET speed == SplitOn(line_speed, <<" ">>)
    IN  IF ~(endswith(line_speed, <<"b", "i", "t">>) \/ endswith(line_speed, <<"b", "i", "t">> \o NewLine))
        THEN Return(0)
        ELSE IF Len(speed) < 2 THEN Raise("IndexError")
        ELSE IF speed[2] = <<"M", "b", "i", "t">> THEN PyInt(speed[1])
        ELSE IF speed[2] = <<"G", "b", "i", "t">> THEN RepeatedInt(speed[1])
        ELSE Return(0)

\* lines 441-466: the entry of one interface
InterfaceEntry(entry) ==
    LET hw == mac(entry.mac_address)
        speed == LineSpeed(entry.line_speed)
        flapped == _parse_uptime(entry.last_flapped, TRUE)
    IN  IF hw.exc # "None" THEN hw
        ELSE IF speed.exc # "None" THEN speed
        ELSE Return([is_enabled |-> entry.admin_status = <<"u", "p">>,
                     is_up |-> entry.oper_status = <<"u", "p">>,
                     description |-> entry.description,
                     mac_address |-> hw.val,
                     last_flapped |-> Float(flapped.val, 0),
                     speed |-> speed.val])

\* the loop of lines 436-470
RECURSIVE InterfacesLoop(_, _)
InterfacesLoop(interfaces, entries) ==
    LET entry == Head(entries)
        iface == InterfaceEntry(entry)
    IN  IF entries = <<>> THEN Return(interfaces)
        ELSE IF Len(entry.iface_name) = 0 THEN InterfacesLoop(interfaces, Tail(entries))
        ELSE IF iface.exc # "None" THEN iface
        ELSE InterfacesLoop(Put(interfaces, _canonical_interface_name(entry.iface_name),
                                iface.val),
                            Tail(entries))

get_interfaces(iface_entries) == InterfacesLoop(<<>>, iface_entries)

(***************************************************************************)
(* get_facts (ftos.py 307-348)                                             *)
(***************************************************************************)
Unknown == <<"U", "n", "k", "n", "o", "w", "n">>

\* lines 310-319
NoFacts ==
    [uptime |-> 0 - 1, vendor |-> <<"D", "e", "l", "l", " ", "E", "M", "C">>, os_version |-> Unknown,
     serial_number |-> Unknown, model |-> Unknown, hostname |-> Unknown,
     fqdn |-> Unknown, interface_list |-> {}]

\* line.split(': ')[1]
AfterColon(line) ==
    LET parts == SplitOn(line, <<":", " ">>)
    IN  IF Len(parts) < 2 THEN Raise("IndexError") ELSE Return(parts[2])

\* lines 325-335: one line of `show system stack-unit 0`
FactsLine(facts, line) ==
    LET value == AfterColon(line)
        uptime == _parse_uptime(value.val, FALSE)
        field == IF startswith(line, <<"U", "p", " ", "T", "i", "m", "e">>) THEN "uptime"
                 ELSE IF startswith(line, <<"M", "f", "g", " ", "B", "y">>) THEN "vendor"
                 ELSE IF Contains(line, <<" ", "O", "S", " ", "V", "e", "r", "s", "i", "o", "n">>) THEN "os_version"
                 ELSE IF startswith(line, <<"S", "e", "r", "i", "a", "l", " ", "N", "u", "m", "b", "e", "r">>) THEN "serial_number"
                 ELSE IF startswith(line, <<"P", "r", "o", "d", "u", "c", "t", " ", "N", "a", "m", "e">>) THEN "model"
                 ELSE ""
    IN  IF field = "" THEN Return(facts)
        ELSE IF value.exc # "None" THEN value
        ELSE IF field # "uptime" THEN Return([facts EXCEPT ![field] = strip(value.val)])
        ELSE IF uptime.exc # "None" THEN uptime
        ELSE Return([facts EXCEPT !.uptime = uptime.val])

\* the loop of lines 324-335
RECURSIVE FactsLoop(_, _)
FactsLoop(facts, lines) ==
    LET next == FactsLine(facts, Head(lines))
    IN  IF lines = <<>> THEN Return(facts)
        ELSE IF next.exc # "None" THEN next
        ELSE FactsLoop(next.val, Tail(lines))

\* line 338
FactsInterfaces(facts, iface_entries) ==
    LET interfaces == get_interfaces(iface_entries)
    IN  IF interfaces.exc # "None" THEN interfaces
        ELSE Return([facts EXCEPT !.interface_list = DOMAIN interfaces.val])

\* lines 342-346: the first hostname line of the running configuration
RECURSIVE HostnameLoop(_, _)
HostnameLoop(facts, lines) ==
    LET line == Head(lines)
        hostname == SubSeq(line, Len(<<"h", "o", "s", "t", "n", "a", "m", "e", " ">>) + 1, Len(line))
    IN  IF lines = <<>> THEN facts
        ELSE IF startswith(line, <<"h", "o", "s", "t", "n", "a", "m", "e", " ">>)
        THEN [facts EXCEPT !.hostname = hostname, !.fqdn = hostname]
        ELSE HostnameLoop(facts, Tail(lines))

FactsCommands == <<"show system stack-unit 0", "show interfaces", RunningCommand>>

InterfacesIpCommands == <<"show ip interface", "show ipv6 interface brief">>

(***************************************************************************)
(* The operations that send several commands, one send at a time.  The     *)
(* locals of the operation are kept in frame.acc and the number of         *)
(* completed sends in frame.pc.                                            *)
(***************************************************************************)
\* the commands of a call, in the order they are sent
Commands(c) ==
    IF c.op = "get_config" THEN ConfigCommands(c.retrieve)
    ELSE IF c.op = "get_environment" THEN EnvironmentCommands
    ELSE IF c.op = "get_interfaces_ip" THEN InterfacesIpCommands
    ELSE FactsCommands

\* the locals before the first send
Locals(c) ==
    IF c.op = "get_config" THEN NoConfig
    ELSE IF c.op = "get_environment" THEN NoEnvironment
    ELSE IF c.op = "get_interfaces_ip" THEN [addr |-> <<>>, mask |-> Unbound]
    ELSE NoFacts

\* what the operation does with the output of its k-th command, up to its
\* next send or its return
Absorb(c, k, acc, output) ==
    IF c.op = "get_config" THEN Return(ConfigStore(acc, Commands(c)[k], output))
    ELSE IF c.op = "get_environment"
    THEN IF k = 1 THEN SensorLoop(acc, output)
         ELSE IF k = 2 THEN CpuLoop(acc, output)
         ELSE MemoryLoop(acc, output)
    ELSE IF c.op = "get_interfaces_ip"
    THEN IF k = 1 THEN IPv4Loop(splitlines(output), acc, NoneKey)
         ELSE IPv6Loop(splitlines(output), acc, NoneKey)
    ELSE IF k = 1 THEN FactsLoop(acc, splitlines(output))
         ELSE IF k = 2 THEN FactsInterfaces(acc, output)
         ELSE Return(HostnameLoop(acc, splitlines(output)))

\* the value returned from the locals
Result(c, acc) == IF c.op = "get_interfaces_ip" THEN acc.addr ELSE acc

(***************************************************************************)
(* The calls of the operations that send several commands, and what the    *)
(* device may answer to each command: text for the commands whose output   *)
(* is scanned, the extracted records for those whose output goes through   *)
(* the extractor.  `intent` records the send at which the transport        *)
(* failed.                                                                 *)
(***************************************************************************)
ConfigTexts ==
    {<<>>,
     <<"!">> \o NewLine,
     <<"!", " ", "V", "e", "r", "s", "i", "o", "n", " ", "9", ".", "1", "4">> \o NewLine \o <<"h", "o", "s", "t", "n", "a", "m", "e", " ", "s", "w", "1">> \o NewLine \o <<"h", "o", "s", "t", "n", "a", "m", "e", " ", "s", "w", "2">> \o NewLine}

VersionTexts ==
    {<<>>,
     <<"U", "p", " ", "T", "i", "m", "e", " ", ":", " ", "1", " ", "w", "k", ",", " ", "2", " ", "d", "a", "y", "(", "s", ")">> \o NewLine \o <<"M", "f", "g", " ", "B", "y", " ", ":", " ", "D", "E", "L", "L", " ">> \o NewLine,
     <<"D", "e", "l", "l", " ", "N", "e", "t", "w", "o", "r", "k", "i", "n", "g", " ", "O", "S", " ", "V", "e", "r", "s", "i", "o", "n", " ", ":", " ", "9", ".", "1", "4", "(", "1", ".", "0", ")">> \o NewLine \o <<"S", "e", "r", "i", "a", "l", " ", "N", "u", "m", "b", "e", "r", " ", ":", " ", "N", "A">> \o NewLine
         \o <<"P", "r", "o", "d", "u", "c", "t", " ", "N", "a", "m", "e", " ", ":", " ", "S", "4", "8", "1", "0">> \o NewLine,
     <<"U", "p", " ", "T", "i", "m", "e", " ", ":", " ", "x", " ", "h", "r">> \o NewLine,
     <<"P", "r", "o", "d", "u", "c", "t", " ", "N", "a", "m", "e", " ", "S", "4", "8", "1", "0">> \o NewLine}

SensorRecords ==
    {<<>>,
     <<[unit |-> <<"0">>, temperature |-> <<"4", "5">>, temp_status |-> <<"2">>, volt_status |-> <<"o", "k">>]>>,
     <<[unit |-> <<"1">>, temperature |-> <<"6", "1", ".", "5">>, temp_status |-> <<"3">>, volt_status |-> <<>>]>>,
     <<[unit |-> <<"0">>, temperature |-> <<>>, temp_status |-> <<"2">>, volt_status |-> <<"o", "k">>]>>}

CpuRecords ==
    {<<>>, <<[unit |-> <<"0">>, omin |-> <<"1", "2", ".", "5">>]>>, <<[unit |-> <<>>, omin |-> <<"3">>]>>}

MemoryRecords ==
    {<<[total |-> <<"1", "0", "0", "0">>, used |-> <<"4", "0", "0">>]>>,
     <<[total |-> <<"1", "0", "0", "0">>, used |-> <<"4", "0", "0">>], [total |-> <<"2", "4">>, used |-> <<>>]>>,
     <<[total |-> <<"1", "0", "0", "0">>, used |-> <<"4", "0", "0">>], [total |-> <<"2", "4">>, used |-> <<"8">>]>>}

InterfaceRecord(name, line_speed) ==
    [iface_name |-> name, description |-> <<"u", "p", "l", "i", "n", "k">>, mac_address |-> <<"0", "0", ":", "0", "1", ":", "e", "8", ":", "8", "b", ":", "4", "4", ":", "7", "1">>,
     admin_status |-> <<"u", "p">>, oper_status |-> <<"d", "o", "w", "n">>, line_speed |-> line_speed,
     last_flapped |-> <<"1", "w", "2", "d">>]

InterfaceRecords ==
    {<<>>,
     <<InterfaceRecord(IfaceTen, <<"1", "0", "0", "0", "0", " ", "M", "b", "i", "t">>), InterfaceRecord(<<>>, <<>>)>>,
     <<InterfaceRecord(IfaceVlan, <<"a", "u", "t", "o">>), InterfaceRecord(IfaceTen, <<"1", " ", "G", "b", "i", "t">>)>>,
     <<InterfaceRecord(IfaceTen, <<"f", "a", "s", "t", " ", "M", "b", "i", "t">>)>>}

\* what the device may answer to the k-th command of a call
Outputs(c, k) ==
    IF c.op = "get_config" THEN ConfigTexts
    ELSE IF c.op = "get_environment"
    THEN IF k = 1 THEN SensorRecords ELSE IF k = 2 THEN CpuRecords ELSE MemoryRecords
    ELSE IF c.op = "get_interfaces_ip"
    THEN IF k = 1 THEN {RenderLines(l, "ipv4") : l \in FewIPv4}
         ELSE {RenderLines(l, "ipv6") : l \in FewIPv6}
    ELSE IF k = 1 THEN VersionTexts
         ELSE IF k = 2 THEN InterfaceRecords
         ELSE ConfigTexts

SendCalls ==
    {[op |-> "get_config", retrieve |-> r] : r \in {"all", "running", "startup", "candidate"}}
    \cup {[op |-> o] : o \in {"get_environment", "get_interfaces_ip", "get_facts"}}

InitSend ==
    /\ device = OpenDevice
    /\ ret = Pending
    /\ intent = NA
    /\ \E c \in SendCalls :
          /\ call = c
          /\ frame = [pc |-> 0, acc |-> Locals(c)]

\* the k-th send has been made with the given outcome: `output` is what
\* _send_command made of it and `done` what the operation made of the output
AfterSend(k, outcome, output, done) ==
    /\ device' = [device EXCEPT !.sent = Append(device.sent, Commands(call)[k])]
    /\ intent' = IF outcome \in TransportFailures THEN Known(k) ELSE intent
    /\ IF output.exc # "None"
       THEN ret' = output /\ frame' = frame
       ELSE IF done.exc # "None"
       THEN ret' = done /\ frame' = [frame EXCEPT !.pc = k]
       ELSE /\ frame' = [pc |-> k, acc |-> done.val]
            /\ ret' = IF k = Len(Commands(call))
                      THEN Return(Result(call, done.val))
                      ELSE Pending
    /\ UNCHANGED call

\* one send of the operation op and what follows it up to the next send or
\* the return; an operation with nothing to send returns at once
SendStep(op) ==
    /\ call.op = op
    /\ ret = Pending
    /\ device.conn = "open"
    /\ IF frame.pc + 1 > Len(Commands(call))
       THEN /\ ret' = Return(Result(call, frame.acc))
            /\ UNCHANGED <<device, call, frame, intent>>
       ELSE \E outcome \in {Answer(o) : o \in Outputs(call, frame.pc + 1)}
                              \cup TransportFailures :
               AfterSend(frame.pc + 1, outcome, _send_command(outcome),
                         Absorb(call, frame.pc + 1, frame.acc, _send_command(outcome).val))

GetConfig == SendStep("get_config")

GetEnvironment == SendStep("get_environment")

GetInterfacesIpSends == SendStep("get_interfaces_ip")

GetFacts == SendStep("get_facts")

NextSend == GetConfig \/ GetEnvironment \/ GetInterfacesIpSends \/ GetFacts

SpecSend == InitSend /\ [][NextSend]_vars

\* C1: once a send has failed at the transport, the operation has raised
\* ConnectionException, has returned nothing, and the commands sent are
\* those up to the failed one and no later one.
C1_FailureAborts ==
    intent.known =>
        /\ ret = Raise("ConnectionException")
        /\ device.sent = SubSeq(Commands(call), 1, intent.val)

\* get_environment has parsed the sensor records when its second send fails
C1_Witness ==
    /\ call.op = "get_environment"
    /\ intent = Known(2)
    /\ frame.acc.temperature # <<>>
    /\ ret = Raise("ConnectionException")
    /\ Len(device.sent) = 2

(***************************************************************************)
(* get_users (ftos.py 657-680)                                             *)
(***************************************************************************)
\* r'password \d+ ([^\s]+) (?:privilege (\d+))?' at position p of line: the
\* hash and the privilege (<<>> for None), or <<>>.  The blank after the
\* hash is part of the pattern whether a privilege follows or not.
UserTail(line, p) ==
    LET d == DigitRun(line, p + 9)
        h == WordRun(line, p + 10 + d)
        q == p + 11 + d + h
        v == IF LitAt(line, q, <<"p", "r", "i", "v", "i", "l", "e", "g", "e", " ">>) THEN DigitRun(line, q + 10) ELSE 0
    IN  IF /\ LitAt(line, p, <<"p", "a", "s", "s", "w", "o", "r", "d", " ">>)
           /\ d > 0 /\ LitAt(line, p + 9 + d, <<" ">>)
           /\ h > 0 /\ LitAt(line, p + 10 + d + h, <<" ">>)
        THEN <<SubSeq(line, p + 10 + d, p + 9 + d + h), SubSeq(line, q + 10, q + 9 + v)>>
        ELSE <<>>

\* the ways r'^username ([^\s]+).+(?:sha256-)?password ...' (line 662)
\* matches line: the name takes k characters, `.+` at least one, and the
\* tail stands at p (an optional 'sha256-' before it is covered by `.+`)
UserMatches(line) ==
    IF ~startswith(line, <<"u", "s", "e", "r", "n", "a", "m", "e", " ">>) THEN {}
    ELSE {m \in (1..WordRun(line, 10)) \X (1..Len(line)) :
             m[2] >= 10 + m[1] + 1 /\ UserTail(line, m[2]) # <<>>}

\* the match the search returns: the longest name, then the longest `.+`;
\* the three groups, or <<>>
MatchUser(line) ==
    LET ms == UserMatches(line)
        k == Max({m[1] : m \in ms})
        p == Max({m[2] : m \in {x \in ms : x[1] = k}})
    IN  IF ms = {} THEN <<>>
        ELSE <<SubSeq(line, 10, 9 + k)>> \o UserTail(line, p)

\* lines 670-678: the entry of a matched line
UserEntry(g) ==
    [password |-> g[2], sshkeys |-> <<>>,
     level |-> IF g[3] # <<>> THEN ToInt(g[3]) ELSE 0]

\* the loop of lines 664-678
RECURSIVE UsersLoop(_, _)
UsersLoop(users, lines) ==
    IF lines = <<>> THEN users
    ELSE IF MatchUser(strip(Head(lines))) = <<>> THEN UsersLoop(users, Tail(lines))
    ELSE UsersLoop(Put(users, MatchUser(strip(Head(lines)))[1],
                       UserEntry(MatchUser(strip(Head(lines))))),
                   Tail(lines))

get_users(output) == UsersLoop(<<>>, splitlines(output))

(***************************************************************************)
(* The calls of get_users: the configuration excerpt is rendered from user *)
(* statements, with or without a privilege clause, which `intent` keeps.   *)
(***************************************************************************)
MaxUserLines == 2

NoPrivilege == 0 - 1

UserLine(name, keyword, hash, privilege) ==
    [kind |-> "user", name |-> name, keyword |-> keyword, hash |-> hash,
     privilege |-> privilege]

UserLines ==
    {UserLine(n, k, h, v) :
        n \in {<<"a", "d", "m", "i", "n">>, <<"o", "p", "s">>}, k \in {<<"p", "a", "s", "s", "w", "o", "r", "d">>, <<"s", "h", "a", "2", "5", "6", "-", "p", "a", "s", "s", "w", "o", "r", "d">>},
        h \in {<<"8", "8", "8", "d", "c", "8", "9", "d">>, <<"c", "0", "f", "f", "e", "e">>}, v \in {NoPrivilege, 0, 15}}
    \cup {[kind |-> "other"]}

RenderUserLine(l) ==
    IF l.kind = "other" THEN <<"!">>
    ELSE <<"u", "s", "e", "r", "n", "a", "m", "e", " ">> \o l.name \o <<" ">> \o l.keyword \o <<" ", "7", " ">> \o l.hash
         \o (IF l.privilege = NoPrivilege THEN <<>>
             ELSE <<" ", "p", "r", "i", "v", "i", "l", "e", "g", "e", " ">> \o FromInt(l.privilege))

RECURSIVE RenderUsers(_)
RenderUsers(lines) ==
    IF lines = <<>> THEN <<>>
    ELSE RenderUserLine(Head(lines)) \o NewLine \o RenderUsers(Tail(lines))

InitUsers ==
    /\ device = OpenDevice
    /\ frame = NoFrame
    /\ ret = Pending
    /\ \E lines \in SeqUpTo(UserLines, MaxUserLines) :
          /\ call = [op |-> "get_users", output |-> RenderUsers(lines)]
          /\ intent = Known(lines)

\* get_users: the command is sent and the device answers call.output
GetUsers ==
    /\ call.op = "get_users"
    /\ ret = Pending
    /\ device.conn = "open"
    /\ device' = [device EXCEPT !.sent = Append(device.sent, "show running-config users")]
    /\ ret' = Return(get_users(call.output))
    /\ UNCHANGED <<call, frame, intent>>

NextUsers == GetUsers

SpecUsers == InitUsers /\ [][NextUsers]_vars

\* the i-th statement is the last one for its user
LastUser(lines, i) ==
    \A j \in DOMAIN lines :
        (j > i /\ lines[j].kind = "user") => lines[j].name # lines[i].name

\* C11: every statement 'username <name> password <n> <hash>' yields an entry
\* for <name> with that hash and an empty sshkeys list, whose level is the
\* privilege of the statement, or 0 when the statement has no privilege
\* clause.
C11_UsersKept ==
    (call.op = "get_users" /\ ret # Pending) =>
        \A i \in DOMAIN intent.val :
           LET l == intent.val[i]
           IN  (l.kind = "user" /\ l.keyword = <<"p", "a", "s", "s", "w", "o", "r", "d">>
                   /\ LastUser(intent.val, i)) =>
                  /\ l.name \in DOMAIN ret.val
                  /\ ret.val[l.name] =
                        [password |-> l.hash, sshkeys |-> <<>>,
                         level |-> IF l.privilege = NoPrivilege THEN 0 ELSE l.privilege]

(***************************************************************************)
(* _send_command with a list of candidate commands (ftos.py 67-71).        *)
(* frame.pc counts the candidates sent; `intent` records what the device   *)
(* did with each of them.                                                  *)
(***************************************************************************)
InvalidMarker == <<"%", " ", "I", "n", "v", "a", "l", "i", "d">>

\* the loop going on whatever the output holds
Breaks_Never(output) == FALSE

\* line 70: the loop over the candidates ends at this output
Breaks(output) == ~Contains(output, InvalidMarker)

\* the commands of a call of _send_command, in the order of the loop: the
\* candidates of a list, or the one command (lines 67-73)
Candidates(command) == IF command.list THEN command.cmds ELSE <<command.cmd>>

\* the call goes on to its next candidate after this output of the i-th one
GoesOn(command, i, output) ==
    command.list /\ ~Breaks(output) /\ i < Len(command.cmds)

MaxCandidates == 3

CandidateCommands == {"show version", "show system brief"}

DeviceOutputs ==
    {<<"%", " ", "I", "n", "v", "a", "l", "i", "d", " ", "i", "n", "p", "u", "t", " ", "d", "e", "t", "e", "c", "t", "e", "d", " ", "a", "t", " ", "\"", "^", "\"", " ", "m", "a", "r", "k", "e", "r", ".">>, <<"D", "e", "l", "l", " ", "N", "e", "t", "w", "o", "r", "k", "i", "n", "g", " ", "O", "S">>,
     <<"%", " ", "E", "r", "r", "o", "r", ":", " ", "%", " ", "I", "n", "v", "a", "l", "i", "d", " ", "a", "d", "d", "r", "e", "s", "s">>, <<>>}

InitFallback ==
    /\ device = OpenDevice
    /\ frame = [pc |-> 0]
    /\ ret = Pending
    /\ intent = Known(<<>>)
    /\ \/ \E cmds \in SeqUpTo(CandidateCommands, MaxCandidates) :
             /\ cmds # <<>>
             /\ call = [op |-> "_send_command", command |-> [list |-> TRUE, cmds |-> cmds]]
       \/ \E cmd \in CandidateCommands :
             call = [op |-> "_send_command", command |-> [list |-> FALSE, cmd |-> cmd]]

\* the (pc+1)-th device.send_command of the call has had this outcome
AfterCandidate(outcome, output) ==
    /\ device' = [device EXCEPT !.sent =
                     Append(device.sent, Candidates(call.command)[frame.pc + 1])]
    /\ intent' = Known(Append(intent.val, outcome))
    /\ frame' = [pc |-> frame.pc + 1]
    /\ ret' = IF output.exc # "None" THEN output
              ELSE IF GoesOn(call.command, frame.pc + 1, output.val) THEN Pending
              ELSE output
    /\ UNCHANGED call

\* one device.send_command of _send_command and what follows it up to the
\* next one or the return
SendCandidate ==
    /\ call.op = "_send_command"
    /\ ret = Pending
    /\ device.conn = "open"
    /\ frame.pc < Len(Candidates(call.command))
    /\ \E outcome \in {Answer(o) : o \in DeviceOutputs} \cup TransportFailures :
          AfterCandidate(outcome, _send_command(outcome))

NextFallback == SendCandidate

SpecFallback == InitFallback /\ [][NextFallback]_vars

\* the i-th outcome is an answer that holds the invalid-command marker
Refused(outcomes, i) ==
    /\ outcomes[i] \notin TransportFailures
    /\ Contains(outcomes[i].output, <<"%", " ", "I", "n", "v", "a", "l", "i", "d">>)

\* C12: the candidates of a non-empty list are sent in list order, each one
\* once; a candidate is sent only after every earlier one was answered with
\* the invalid-command marker; the value returned is the first answer
\* without the marker, or the answer to the last candidate when every answer
\* holds the marker, and nothing is sent after it.
C12_FallbackChain ==
    (call.op = "_send_command" /\ call.command.list) =>
        LET cmds == call.command.cmds
            n == Len(device.sent)
        IN  /\ n = Len(intent.val)
            /\ n <= Len(cmds)
            /\ device.sent = SubSeq(cmds, 1, n)
            /\ \A i \in 1..(n - 1) : Refused(intent.val, i)
            /\ ret.exc = "None" =>
                  /\ n >= 1
                  /\ ret.val = intent.val[n].output
                  /\ ~Refused(intent.val, n) \/ n = Len(cmds)
            /\ (ret = Pending /\ n >= 1) => (Refused(intent.val, n) /\ n < Len(cmds))
            /\ (n = 0) => ret = Pending

\* of three candidates the first was refused, the second was not, and its
\* answer has been returned with the third never sent
C12_Witness ==
    /\ call.op = "_send_command"
    /\ call.command.list
    /\ Len(call.command.cmds) = 3
    /\ Len(device.sent) = 2
    /\ Refused(intent.val, 1)
    /\ ret = Return(<<"D", "e", "l", "l", " ", "N", "e", "t", "w", "o", "r", "k", "i", "n", "g", " ", "O", "S">>)

(***************************************************************************)
(* The calls of get_interfaces (ftos.py 431-472): one or two entries, each *)
(* with a line speed written from a number and a unit.                     *)
(***************************************************************************)
SpeedIntents ==
    [unit : {"Mbit", "Gbit", "Mbps"}, n : {0, 1, 10, 1000}] \cup {[unit |-> "auto", n |-> 0]}

RenderSpeed(sp) ==
    IF sp.unit = "auto" THEN <<"a", "u", "t", "o">>
    ELSE FromInt(sp.n) \o <<" ">> \o
         (IF sp.unit = "Mbit" THEN <<"M", "b", "i", "t">> ELSE IF sp.unit = "Gbit" THEN <<"G", "b", "i", "t">> ELSE <<"M", "b", "p", "s">>)

\* the i-th entry of a call is the i-th of these interfaces
SpeedIfaces == <<IfaceTen, IfaceVlan>>

InitInterfaces ==
    /\ device = OpenDevice
    /\ frame = NoFrame
    /\ ret = Pending
    /\ \E sps \in SeqUpTo(SpeedIntents, Len(SpeedIfaces)) :
          /\ call = [op |-> "get_interfaces",
                     extracted |-> [i \in DOMAIN sps |->
                                       InterfaceRecord(SpeedIfaces[i], RenderSpeed(sps[i]))]]
          /\ intent = Known(sps)

\* get_interfaces: "show interfaces" is sent and its output extracted
GetInterfaces ==
    /\ call.op = "get_interfaces"
    /\ ret = Pending
    /\ device.conn = "open"
    /\ device' = [device EXCEPT !.sent = Append(device.sent, "show interfaces")]
    /\ ret' = get_interfaces(call.extracted)
    /\ UNCHANGED <<call, frame, intent>>

NextInterfaces == GetInterfaces

SpecInterfaces == InitInterfaces /\ [][NextInterfaces]_vars

\* the speed in megabits that a number and a unit stand for
Megabits(sp) ==
    IF sp.unit = "Mbit" THEN sp.n ELSE IF sp.unit = "Gbit" THEN sp.n * 1000 ELSE 0

\* equality of two values of any shape (an integer is never equal to a value
\* that is not one)
SameValue(a, b) == ToString(a) = ToString(b)

\* C15: the speed of an interface is n for '<n> Mbit', n * 1000 for
\* '<n> Gbit', and 0 for a line speed that does not end in 'bit'.
C15_SpeedInMegabits ==
    (call.op = "get_interfaces" /\ ret # Pending) =>
        /\ ret.exc = "None"
        /\ \A i \in DOMAIN intent.val :
              SameValue(ret.val[_canonical_interface_name(SpeedIfaces[i])].speed,
                        Megabits(intent.val[i]))

\* '<n> Mbit' gives n and a line speed that does not end in 'bit' gives 0
SpeedOutsideGbit ==
    (call.op = "get_interfaces" /\ ret # Pending) =>
        /\ ret.exc = "None"
        /\ \A i \in DOMAIN intent.val :
              intent.val[i].unit # "Gbit" =>
                  ret.val[_canonical_interface_name(SpeedIfaces[i])].speed = Megabits(intent.val[i])

====
